---- MODULE Spec2Model ----
(***************************************************************************)
(* EdgeQL set compilation (edb/edgeql/compiler/setgen.py) as a state       *)
(* machine.  Sets, Pointer edges and scope-tree nodes live in arenas       *)
(* addressed by handles (1..Len); the compile context is a stack of        *)
(* context levels; compile_path and computable_ptr_set are frames of a     *)
(* call stack, so that the recursion compile_path -> computable_ptr_set    *)
(* -> dispatch.compile -> compile_path is explicit.                        *)
(***************************************************************************)
EXTENDS Integers, Sequences, FiniteSets, TLC

VARIABLES
    sets,       \* arena of ir.Set nodes
    ptrs,       \* arena of ir.Pointer / TypeIndirectionPointer edges
    set_types,  \* ctx.env.set_types: Set handle -> schema type
    nodes,      \* arena of ScopeTreeNode
    schema,     \* ctx.env.schema: snapshot version
    aliases,    \* ctx.aliases: the alias / namespace counter
    ctxs,       \* the stack of ContextLevel, innermost last
    frames,     \* the call stack, innermost last
    exc,        \* the exception being raised, "none" when there is none
    outcome,    \* what the last finished top-level call produced
    calls,      \* top-level calls made in this compile
    work,       \* path steps handed to the top-level calls so far
    op          \* the operation last run (direct-call specifications); the
                \* log of the finished computable_ptr_set calls (Spec)

vars == <<sets, ptrs, set_types, nodes, schema, aliases, ctxs, frames,
          exc, outcome, calls, work, op>>

\* ------------------------------------------------------------------ bounds

\* Longest path, in steps after the root.
MaxSteps == 2
\* Top-level compile_path calls per compile.
MaxCalls == 2
\* Path steps over all the top-level calls of one compile.
MaxWork == 3
\* Deepest call stack, in frames.
MaxDepth == 5

\* ------------------------------------------------------------------ schema

NoType == "None"
ObjectTypes == {"Person", "Employee", "PView", "ScalarType"}
ScalarTypes == {"str"}
TupleTypes == {"Tup"}
\* Type.issubclass: Employee extends Person, PView is a view over Person.
issubclass(t, u) == t = u \/ (t \in {"Employee", "PView"} /\ u = "Person")

is_view(t) == t = "PView"

peel_view(t) == IF t = "PView" THEN "Person" ELSE t

Outbound == ">"
Inbound == "<"
NoDir == "-"

ONE == "ONE"
MANY == "MANY"

(* The schema's pointers.  kind: link, property or link property (lprop).  *)
(* in_source_map: ctx.source_map holds a defining expression for it.       *)
(* pure: Pointer.is_pure_computable.  has_default: get_default is set.     *)
(* derived_from: Pointer.get_derived_from; the view PView derives friends  *)
(* from Person.friends and mates, a link to the view itself, from its own  *)
(* friends; note is a computed link property of mates.                     *)
PtrTable ==
    [p \in {"Person.friends", "Employee.name", "friends@since", "Person.pals",
            "Person.tag", "PView.friends", "Person.bad", "PView.mates",
            "mates@note", "str.__type__"} |->
      CASE p = "Person.friends" ->
             [name |-> "friends", source |-> "Person", target |-> "Person",
              card |-> MANY, kind |-> "link", in_source_map |-> FALSE,
              pure |-> FALSE, has_default |-> FALSE, derived_from |-> NoType]
        [] p = "Employee.name" ->
             [name |-> "name", source |-> "Employee", target |-> "str",
              card |-> ONE, kind |-> "property", in_source_map |-> FALSE,
              pure |-> FALSE, has_default |-> FALSE, derived_from |-> NoType]
        [] p = "friends@since" ->
             [name |-> "since", source |-> "Person.friends", target |-> "str",
              card |-> ONE, kind |-> "lprop", in_source_map |-> FALSE,
              pure |-> FALSE, has_default |-> FALSE, derived_from |-> NoType]
        [] p = "Person.pals" ->
             [name |-> "pals", source |-> "Person", target |-> "Person",
              card |-> MANY, kind |-> "link", in_source_map |-> TRUE,
              pure |-> FALSE, has_default |-> FALSE, derived_from |-> NoType]
        [] p = "Person.tag" ->
             [name |-> "tag", source |-> "Person", target |-> "str",
              card |-> ONE, kind |-> "property", in_source_map |-> FALSE,
              pure |-> TRUE, has_default |-> TRUE, derived_from |-> NoType]
        [] p = "PView.friends" ->
             [name |-> "friends", source |-> "PView", target |-> "Person",
              card |-> MANY, kind |-> "link", in_source_map |-> TRUE,
              pure |-> FALSE, has_default |-> FALSE,
              derived_from |-> "Person.friends"]
        [] p = "Person.bad" ->
             [name |-> "bad", source |-> "Person", target |-> "Person",
              card |-> MANY, kind |-> "link", in_source_map |-> TRUE,
              pure |-> FALSE, has_default |-> FALSE, derived_from |-> NoType]
        [] p = "PView.mates" ->
             [name |-> "mates", source |-> "PView", target |-> "PView",
              card |-> MANY, kind |-> "link", in_source_map |-> FALSE,
              pure |-> FALSE, has_default |-> FALSE,
              derived_from |-> "PView.friends"]
        [] p = "mates@note" ->
             [name |-> "note", source |-> "PView.mates", target |-> "str",
              card |-> ONE, kind |-> "lprop", in_source_map |-> FALSE,
              pure |-> TRUE, has_default |-> TRUE, derived_from |-> NoType]
        [] OTHER ->
             [name |-> "__type__", source |-> "str", target |-> "ScalarType",
              card |-> ONE, kind |-> "link", in_source_map |-> FALSE,
              pure |-> FALSE, has_default |-> FALSE, derived_from |-> NoType]]

PtrIds == DOMAIN PtrTable

\* s_sources.Source: object types and links.
IsSource(t) ==
    t \in ObjectTypes \cup {p \in PtrIds : PtrTable[p].kind = "link"}
NoPtr == "no-ptr"

is_link_property(p) == PtrTable[p].kind = "lprop"

\* Pointer.get_far_endpoint / get_near_endpoint.
get_far_endpoint(p, direction) ==
    IF direction = Inbound THEN PtrTable[p].source ELSE PtrTable[p].target

get_near_endpoint(p, direction) ==
    IF direction = Inbound THEN PtrTable[p].target ELSE PtrTable[p].source

\* PointerRef.dir_cardinality: the cardinality seen in the direction walked.
dir_cardinality(p, direction) ==
    IF direction = Inbound THEN MANY ELSE PtrTable[p].card

\* ---------------------------------------------------------------- PathId

\* A root: a type (n = -1) or a derived name, alias hint plus number.
RootSeg(name, n) ==
    [k |-> "root", name |-> name, n |-> n, dir |-> NoDir, tgt |-> NoType,
     opt |-> FALSE, card |-> ONE]

PtrSeg(p, direction, target) ==
    [k |-> "ptr", name |-> p, n |-> -1, dir |-> direction, tgt |-> target,
     opt |-> FALSE, card |-> ONE]

IndSeg(target, optional, cardinality) ==
    [k |-> "ind", name |-> "[IS]", n |-> -1, dir |-> Outbound, tgt |-> target,
     opt |-> optional, card |-> cardinality]

TupSeg(name, eltype) ==
    [k |-> "tup", name |-> name, n |-> -1, dir |-> Outbound, tgt |-> eltype,
     opt |-> FALSE, card |-> ONE]

\* A Set or scope node with no PathId.
NoPath == [segs |-> <<>>, ns |-> {}, is_ptr |-> FALSE]

\* PathId.from_type(schema, t, typename=..., namespace=...)
from_type(name, n, ns) ==
    [segs |-> <<RootSeg(name, n)>>, ns |-> ns, is_ptr |-> FALSE]

merge_namespace(pid, ns) == [pid EXCEPT !.ns = @ \cup ns]

strip_namespace(pid, ns) == [pid EXCEPT !.ns = @ \ ns]

\* PathId.ptr_path: the path of the link itself, not of its far endpoint.
ptr_path(pid) == [pid EXCEPT !.is_ptr = TRUE]

\* PathId.src_path: the path this one extends.
src_path(pid) ==
    [segs |-> SubSeq(pid.segs, 1, Len(pid.segs) - 1), ns |-> pid.ns,
     is_ptr |-> FALSE]

LastSeg(pid) == pid.segs[Len(pid.segs)]

is_type_indirection_path(pid) ==
    Len(pid.segs) > 0 /\ LastSeg(pid).k = "ind"

\* pathctx.extend_path_id
extend_path_id(src, p, direction, target, ns) ==
    [segs |-> Append(src.segs, PtrSeg(p, direction, target)),
     ns |-> src.ns \cup ns, is_ptr |-> FALSE]

\* pathctx.get_type_indirection_path_id
get_type_indirection_path_id(src, target, optional, cardinality) ==
    [segs |-> Append(src.segs, IndSeg(target, optional, cardinality)),
     ns |-> src.ns, is_ptr |-> FALSE]

\* pathctx.get_tuple_indirection_path_id
get_tuple_indirection_path_id(src, elname, eltype) ==
    [segs |-> Append(src.segs, TupSeg(elname, eltype)), ns |-> src.ns,
     is_ptr |-> FALSE]

RECURSIVE weak_namespace_prefixes(_)
\* PathId.iter_weak_namespace_prefixes: the path itself, then the same path
\* with its weak namespace tags taken off one by one, the newest first.  Every
\* tag of the model is weak (a minted per-expansion tag or the recorded one).
weak_namespace_prefixes(pid) ==
    IF pid.ns = {} THEN <<pid>>
    ELSE LET newest == CHOOSE t \in pid.ns : \A u \in pid.ns : u[2] <= t[2]
         IN <<pid>> \o weak_namespace_prefixes([pid EXCEPT !.ns = @ \ {newest}])

\* ------------------------------------------------------------- the arenas

NoExpr == [k |-> "none", arg |-> 0, ty |-> "None"]

\* The heap a factory operation works on; Ret pairs it with the operation's
\* value and the error it raised ("none" when it returned).
Heap == [sets |-> sets, ptrs |-> ptrs, set_types |-> set_types,
         nodes |-> nodes, schema |-> schema, aliases |-> aliases]

Ret(h, val) == [h |-> h, val |-> val, err |-> "none"]

Raise(h, e) == [h |-> h, val |-> 0, err |-> e]

\* A local of the code: v under a name for the rest of the computation F.
With(v, F(_)) == F(v)

\* irast.Set(...)
SetRec(path_id, typeref, scope_id, expr, rptr, cls) ==
    [path_id |-> path_id, typeref |-> typeref, path_scope_id |-> scope_id,
     expr |-> expr, rptr |-> rptr, cls |-> cls, shape |-> FALSE]

\* irast.Pointer(...) and irast.TypeIndirectionPointer(...)
PtrRec(source, target, direction, ptrref, card, optional, cls) ==
    [source |-> source, target |-> target, direction |-> direction,
     ptrref |-> ptrref, card |-> card, optional |-> optional, cls |-> cls]

\* irast.ScopeTreeNode
NodeRec(path_id, fenced, parent) ==
    [path_id |-> path_id, fenced |-> fenced, parent |-> parent,
     namespaces |-> {}]

\* ------------------------------------------------------------- scope tree

Children(ns, n) == {c \in 1..Len(ns) : ns[c].parent = n}

RECURSIVE IsAncestor(_, _, _)
\* a is a strict ancestor of n.
IsAncestor(ns, a, n) ==
    /\ ns[n].parent # 0
    /\ (ns[n].parent = a \/ IsAncestor(ns, a, ns[n].parent))

Descendants(ns, n) == {d \in 1..Len(ns) : IsAncestor(ns, n, d)}

Lowest(S) == CHOOSE x \in S : \A y \in S : x <= y

\* ScopeTreeNode.find_child: the direct child labeled pid, 0 when none.
find_child(ns, n, pid) ==
    LET hit == {c \in Children(ns, n) : ns[c].path_id = pid}
    IN IF hit = {} THEN 0 ELSE Lowest(hit)

\* ScopeTreeNode.find_descendant: a strict descendant labeled pid, 0 when none.
find_descendant(ns, n, pid) ==
    LET hit == {d \in Descendants(ns, n) : ns[d].path_id = pid}
    IN IF hit = {} THEN 0 ELSE Lowest(hit)

\* irast.new_scope_tree(): a detached anonymous node.
new_scope_tree(h) ==
    Ret([h EXCEPT !.nodes = Append(@, NodeRec(NoPath, FALSE, 0))],
        Len(h.nodes) + 1)

\* ScopeTreeNode.attach_child / attach_subtree: the node becomes a direct
\* child of parent.
attach_child(ns, parent, child) == [ns EXCEPT ![child].parent = parent]

attach_subtree(ns, parent, branch) == attach_child(ns, parent, branch)

RECURSIVE CopyNodes(_, _, _, _)
\* The nodes of `todo` (handles in increasing order) appended as copies;
\* `map` sends an already copied handle to its copy.
CopyNodes(ns, todo, map, top) ==
    IF todo = <<>> THEN ns
    ELSE LET n == Head(todo)
             par == IF n = top THEN 0 ELSE map[ns[n].parent]
         IN CopyNodes(Append(ns, [ns[n] EXCEPT !.parent = par]),
                      Tail(todo), map @@ (n :> Len(ns) + 1), top)

RECURSIVE SortedSeq(_)
SortedSeq(S) ==
    IF S = {} THEN <<>> ELSE <<Lowest(S)>> \o SortedSeq(S \ {Lowest(S)})

RECURSIVE TopoSeq(_, _)
\* The subtree under n in an order that lists a parent before its children.
TopoSeq(ns, n) ==
    LET kids == SortedSeq(Children(ns, n))
        F[i \in 0..Len(kids)] ==
            IF i = 0 THEN <<>> ELSE F[i - 1] \o TopoSeq(ns, kids[i])
    IN <<n>> \o F[Len(kids)]

\* ScopeTreeNode.copy(): a detached deep copy of the subtree under n.
copy_tree(h, n) ==
    Ret([h EXCEPT !.nodes = CopyNodes(@, TopoSeq(@, n), <<>>, n)],
        Len(h.nodes) + 1)

\* pathctx.assign_set_scope
assign_set_scope(h, s, node) ==
    [h EXCEPT !.sets[s].path_scope_id = node]

\* pathctx.get_set_scope
get_set_scope(h, s) == h.sets[s].path_scope_id

\* pathctx.register_set_in_scope: a leaf for the Set's PathId under the
\* scope pointer (the existing one when the label is already a direct
\* child), which then owns the Set.
register_set_in_scope(h, s, scope) ==
    LET pid == h.sets[s].path_id
        old == find_child(h.nodes, scope, pid)
        leaf == IF old # 0 THEN old ELSE Len(h.nodes) + 1
        h1 == IF old # 0 THEN h
              ELSE [h EXCEPT !.nodes = Append(@, NodeRec(pid, FALSE, scope))]
    IN assign_set_scope(h1, s, leaf)

\* ------------------------------------------------------------ Set factory

\* A Set that was given no typeref.
NoTypeRef == [cls |-> "None", id |-> "None"]

\* irtyputils.type_to_typeref: the IR reference to a schema type.
type_to_typeref(stype) == [cls |-> "TypeRef", id |-> stype]

\* new_set(stype=..., **kwargs)
new_set(h, stype, path_id, scope_id, expr, rptr) ==
    LET id == Len(h.sets) + 1
        ir_set == SetRec(path_id, type_to_typeref(stype), scope_id, expr,
                         rptr, "Set")
    IN Ret([h EXCEPT !.sets = Append(@, ir_set),
                     !.set_types = @ @@ (id :> stype)], id)

\* new_empty_set(stype=None, alias=...)
new_empty_set(h, stype, alias) ==
    LET id == Len(h.sets) + 1
        path_id == from_type("__derived__", alias, {})
        ir_set == SetRec(path_id, NoTypeRef, 0, NoExpr, 0, "EmptySet")
    IN Ret([h EXCEPT !.sets = Append(@, ir_set),
                     !.set_types = @ @@ (id :> stype)], id)

\* update_set_type(ir_set, stype)
update_set_type(h, s, stype) ==
    [h EXCEPT !.sets[s].typeref = type_to_typeref(stype),
              !.set_types = [x \in DOMAIN @ \cup {s} |->
                               IF x = s THEN stype ELSE @[x]]]

\* get_set_type(ir_set)
get_set_type(h, s) == h.set_types[s]

\* new_set_from_set(ir_set, preserve_scope_ns=..., path_id=..., stype=...)
new_set_from_set(h, c, s, preserve_scope_ns, path_id, stype) ==
    LET pid0 == IF path_id = NoPath THEN h.sets[s].path_id ELSE path_id
        pid == IF preserve_scope_ns THEN pid0
               ELSE merge_namespace(pid0, c.path_id_namespace)
        st == IF stype = NoType THEN get_set_type(h, s) ELSE stype
    IN new_set(h, st, pid, h.sets[s].path_scope_id, h.sets[s].expr,
               h.sets[s].rptr)

\* pathctx.get_path_id
get_path_id(stype, c) == from_type(stype, -1, c.path_id_namespace)

\* class_set(stype)
class_set(h, c, stype) == new_set(h, stype, get_path_id(stype, c), 0, NoExpr, 0)

\* get_expression_path_id(t, alias)
get_expression_path_id(c, alias) ==
    from_type("__derived__", alias, c.path_id_namespace)

\* inference.infer_type of a backing expression.
infer_type(h, expr) ==
    CASE expr.k = "tupind" -> "str"
      [] expr.k \in {"stmt", "wrapper"} -> get_set_type(h, expr.arg)
      [] OTHER -> expr.ty

\* new_expression_set(ir_expr, path_id, alias)
new_expression_set(h, c, expr, path_id, alias) ==
    LET result_type == infer_type(h, expr)
        pid == IF path_id # NoPath THEN path_id
               ELSE get_expression_path_id(c, alias)
    IN new_set(h, result_type, pid, 0, expr, 0)

\* generated_set(expr, path_id): ctx.aliases.get('expr') mints a name never
\* handed out before, then the expression is wrapped.
generated_set(h, c, expr, path_id) ==
    LET alias == h.aliases
        h1 == [h EXCEPT !.aliases = @ + 1]
    IN new_expression_set(h1, c, expr, path_id, alias)

\* -------------------------------------------------------- pointer resolver

Related(t, u) == issubclass(t, u) \/ issubclass(u, t)

\* Source.resolve_pointer(schema, name, direction=..., look_in_children=False,
\* far_endpoint=...): the pointer of that name the source has itself or
\* inherits, NoPtr when there is none.  The schema comes back as it was.
resolve_pointer(source, name, direction, far) ==
    LET out == {p \in PtrIds :
                  /\ PtrTable[p].name = name
                  /\ issubclass(source, PtrTable[p].source)
                  /\ (far = NoType \/ Related(far, PtrTable[p].target))}
        own == {p \in out : PtrTable[p].source = source}
        inb == {p \in PtrIds :
                  /\ PtrTable[p].name = name
                  /\ PtrTable[p].kind = "link"
                  /\ PtrTable[p].derived_from = NoType
                  /\ issubclass(source, PtrTable[p].target)
                  /\ (far = NoType \/ Related(far, PtrTable[p].source))}
        hit == IF direction = Inbound THEN inb
               ELSE IF own # {} THEN own ELSE out
    IN IF hit = {} THEN NoPtr ELSE CHOOSE p \in hit : TRUE

\* schemactx.get_schema_ptr: a pointer of the schema by name, NoPtr when the
\* schema has none (the lookup then raises).
get_schema_ptr(name) ==
    IF \E p \in PtrIds : PtrTable[p].name = name
    THEN CHOOSE p \in PtrIds : PtrTable[p].name = name
    ELSE NoPtr

\* resolve_ptr with the lookup widened to the pointers of the source's
\* descendants (look_in_children=True).
resolve_ptr_in_children(h, c, near_endpoint, pointer_name, direction, target) ==
    IF \E p \in PtrIds : PtrTable[p].name = pointer_name
    THEN Ret(h, CHOOSE p \in PtrIds : PtrTable[p].name = pointer_name)
    ELSE Raise(h, "InvalidReferenceError")

\* resolve_ptr(near_endpoint, pointer_name, direction, target)
resolve_ptr(h, c, near_endpoint, pointer_name, direction, target) ==
    IF IsSource(near_endpoint)
    THEN LET ptr == resolve_pointer(near_endpoint, pointer_name, direction,
                                    target)
         IN IF ptr = NoPtr THEN Raise(h, "InvalidReferenceError")
            ELSE Ret(h, ptr)
    ELSE IF direction = Outbound
         THEN LET bptr == get_schema_ptr(pointer_name)
              IN IF bptr = NoPtr THEN Raise(h, "InvalidReferenceError")
                 ELSE IF PtrTable[bptr].name = "__type__"
                 THEN \* bptr.derive(schema, near_endpoint, schema_cls)
                      Ret([h EXCEPT !.schema = @ + 1], "str.__type__")
                 ELSE Raise(h, "InvalidReferenceError")
         ELSE Raise(h, "InvalidReferenceError")

\* _is_computable_ptr that goes on to the schema's answer when the record of
\* the pointer holds no expression.
is_computable_ptr_any_reason(c, ptrcls, force_computable) ==
    \/ ptrcls \in DOMAIN c.source_map /\ c.source_map[ptrcls]
    \/ PtrTable[ptrcls].pure
    \/ force_computable /\ PtrTable[ptrcls].has_default

\* _is_computable_ptr(ptrcls, force_computable=...)
is_computable_ptr(c, ptrcls, force_computable) ==
    IF ptrcls \in DOMAIN c.source_map THEN c.source_map[ptrcls]
    ELSE IF PtrTable[ptrcls].pure THEN TRUE
    ELSE force_computable /\ PtrTable[ptrcls].has_default

\* ------------------------------------------------------- path extension

\* class_indirection_set that records the multiplicity one whatever the
\* incoming edge of the source Set is.
class_indirection_set_always_one(h, c, source_set, target_scls, optional) ==
    LET r1 == new_set(h, target_scls, NoPath, 0, NoExpr, 0)
        poly_set == r1.val
        path_id == get_type_indirection_path_id(
                       h.sets[source_set].path_id, target_scls, optional, ONE)
        ptr == PtrRec(source_set, poly_set, Outbound, "[IS]", ONE, optional,
                      "TypeIndirectionPointer")
        pid == Len(h.ptrs) + 1
    IN Ret([r1.h EXCEPT !.sets[poly_set].path_id = path_id,
                        !.sets[poly_set].rptr = pid,
                        !.ptrs = Append(@, ptr)], poly_set)

\* class_indirection_set(source_set, target_scls, optional=...)
class_indirection_set(h, c, source_set, target_scls, optional) ==
    LET r1 == new_set(h, target_scls, NoPath, 0, NoExpr, 0)
        poly_set == r1.val
        rptr == h.sets[source_set].rptr
        cardinality == IF rptr # 0 /\ h.ptrs[rptr].card = MANY
                       THEN MANY ELSE ONE
        path_id == get_type_indirection_path_id(
                       h.sets[source_set].path_id, target_scls, optional,
                       cardinality)
        ptr == PtrRec(source_set, poly_set, Outbound, "[IS]", cardinality,
                      optional, "TypeIndirectionPointer")
        pid == Len(h.ptrs) + 1
    IN Ret([r1.h EXCEPT !.sets[poly_set].path_id = path_id,
                        !.sets[poly_set].rptr = pid,
                        !.ptrs = Append(@, ptr)], poly_set)

\* extend_path(source_set, ptrcls, direction, target, ignore_computable=...,
\* force_computable=...) up to the expansion of a computed pointer: expand
\* says whether computable_ptr_set is called on ptr next.
extend_path(h, c, source_set, ptrcls, direction, target, ignore_computable, force_computable) ==
    LET poly == /\ ~is_link_property(ptrcls)
                /\ direction # Inbound
                /\ ~issubclass(get_set_type(h, source_set),
                               get_near_endpoint(ptrcls, direction))
        tgt == IF target = NoType THEN get_far_endpoint(ptrcls, direction)
               ELSE target
    IN With(IF poly
            THEN class_indirection_set(h, c, source_set,
                                       get_near_endpoint(ptrcls, direction),
                                       TRUE)
            ELSE Ret(h, source_set), LAMBDA r1 :
       With(IF is_link_property(ptrcls)
            THEN ptr_path(r1.h.sets[r1.val].path_id)
            ELSE r1.h.sets[r1.val].path_id, LAMBDA src_path_id :
       With(new_set(r1.h, tgt,
                    extend_path_id(src_path_id, ptrcls, direction, tgt,
                                   c.path_id_namespace),
                    0, NoExpr, 0), LAMBDA r2 :
       With(PtrRec(r1.val, r2.val, direction, ptrcls,
                   dir_cardinality(ptrcls, direction), FALSE, "Pointer"),
            LAMBDA ptr :
         [h |-> [r2.h EXCEPT !.ptrs = Append(@, ptr),
                             !.sets[r2.val].rptr = Len(r2.h.ptrs) + 1],
          val |-> r2.val, err |-> "none", ptr |-> Len(r2.h.ptrs) + 1,
          expand |-> ~ignore_computable
                     /\ is_computable_ptr(c, ptrcls, force_computable)]))))

\* ptr_step_set that filters whenever a target type is asked for, be it the
\* far endpoint itself.
ptr_step_set_always_filter(h, c, path_tip, source, ptr_name, direction, ptr_target) ==
    With(resolve_ptr(h, c, source, ptr_name, direction, ptr_target),
         LAMBDA r1 :
      IF r1.err # "none" THEN r1
      ELSE With(get_far_endpoint(r1.val, direction), LAMBDA target :
           With(extend_path(r1.h, c, path_tip, r1.val, direction, target,
                            TRUE, FALSE), LAMBDA r2 :
             IF ptr_target # NoType
             THEN class_indirection_set(r2.h, c, r2.val, ptr_target, FALSE)
             ELSE Ret(r2.h, r2.val))))

\* ptr_step_set(path_tip, source=..., ptr_name=..., direction=...,
\* ptr_target=..., ignore_computable=True)
ptr_step_set(h, c, path_tip, source, ptr_name, direction, ptr_target) ==
    With(resolve_ptr(h, c, source, ptr_name, direction, ptr_target),
         LAMBDA r1 :
      IF r1.err # "none" THEN r1
      ELSE With(get_far_endpoint(r1.val, direction), LAMBDA target :
           With(extend_path(r1.h, c, path_tip, r1.val, direction, target,
                            TRUE, FALSE), LAMBDA r2 :
             IF ptr_target # NoType /\ target # ptr_target
             THEN class_indirection_set(r2.h, c, r2.val, ptr_target, FALSE)
             ELSE Ret(r2.h, r2.val))))

\* The one tuple type: tuple<a: str>.
TupleElements == {"a"}

\* tuple_indirection_set(path_tip, source=..., ptr_name=...)
tuple_indirection_set(h, c, path_tip, source, ptr_name) ==
    IF ptr_name \notin TupleElements THEN Raise(h, "InvalidReferenceError")
    ELSE LET path_id == get_tuple_indirection_path_id(
                            h.sets[path_tip].path_id, ptr_name, "str")
             expr == [k |-> "tupind", arg |-> path_tip, ty |-> "str"]
         IN generated_set(h, c, expr, path_id)

\* ---------------------------------------------------------- context levels

\* The view Set of the alias view PView and the root of its captured scope
\* (ctx.view_sets, ctx.path_scope_map), as Init builds them.
ViewSet == 1
ViewScope == 2
RootScope == 1

path_scope_map == (ViewSet :> ViewScope)

\* ctx.source_map as the defining environment recorded it: ptrcls -> whether
\* the recorded defining expression is there (not None).
TopSourceMap == [p \in {q \in PtrIds : PtrTable[q].in_source_map} |-> TRUE]

\* The context level of the top-level statement, which is also the defining
\* environment (qlctx) of the view pointers.
TopCtx ==
    [path_scope |-> RootScope, path_id_namespace |-> {}, self |-> 0,
     partial_path_prefix |-> 0, view_map |-> <<>>,
     view_sets |-> ("PView" :> ViewSet), source_map |-> TopSourceMap,
     aliased_views |-> {}, pending_own |-> {}, pending_ns |-> {},
     temporary |-> FALSE, mode |-> "top"]

CurCtx == ctxs[Len(ctxs)]

\* ctx.new(): a child level holding its own copy of the mappings.
ctx_new(c) == [c EXCEPT !.temporary = FALSE, !.mode = "new"]

\* ctx.newscope(fenced=True, temporary=True): a child level whose scope
\* pointer is a new fence node under the current one.
ctx_newscope(c, node) ==
    [c EXCEPT !.path_scope = node, !.temporary = TRUE, !.mode = "newscope"]

\* ctx.detached(): a level that inherits no alias, view or scope state.
ctx_detached(c, node) ==
    [path_scope |-> node, path_id_namespace |-> {}, self |-> 0,
     partial_path_prefix |-> 0, view_map |-> <<>>, view_sets |-> <<>>,
     source_map |-> <<>>, aliased_views |-> {}, pending_own |-> {},
     pending_ns |-> {}, temporary |-> FALSE, mode |-> "detached"]

\* Leaving a level: a temporary scope is taken out of the tree again.
PopNodes(ns, c) ==
    IF c.temporary THEN [ns EXCEPT ![c.path_scope].parent = 0] ELSE ns

Pop(stack) == SubSeq(stack, 1, Len(stack) - 1)

\* ctx.view_map.get(key): the innermost layer's entry wins, 0 when none.
view_map_get(c, key) ==
    LET hit == {j \in 1..Len(c.view_map) : c.view_map[j].key = key}
    IN IF hit = {} THEN 0
       ELSE c.view_map[CHOOSE j \in hit : \A x \in hit : x <= j].val

\* ------------------------------------------------------------------ inputs

Step(k, name, dir, target, type, ty, reg) ==
    [k |-> k, name |-> name, dir |-> dir, target |-> target, type |-> type,
     ty |-> ty, reg |-> reg]

PtrStep(name, dir, target, type) ==
    Step("Ptr", name, dir, target, type, NoType, "none")

\* Path roots: type and view references; sub-expressions that register
\* their own path in their scope, that are a type indirection
\* (Person[IS Employee]) or a tuple constant; and 'self'.
ObjectRefs == {Step("ObjectRef", t, NoDir, NoType, "link", NoType, "none") :
                 t \in {"Person", "PView"}}

ExprRoots ==
    {Step("Expr", "expr", NoDir, NoType, "link", "str", "self"),
     Step("Expr", "expr", NoDir, NoType, "link", "Employee", "ind"),
     Step("Expr", "expr", NoDir, NoType, "link", "Tup", "none")}

SourceRoot == Step("Source", "self", NoDir, NoType, "link", NoType, "none")

\* Steps after the root.
PtrSteps ==
    {PtrStep("friends", NoDir, NoType, "link"),
     PtrStep("friends", Outbound, "Employee", "link"),
     PtrStep("friends", NoDir, "Person", "link"),
     PtrStep("friends", Inbound, NoType, "link"),
     PtrStep("friends", NoDir, "str", "link"),
     PtrStep("name", NoDir, NoType, "link"),
     PtrStep("since", NoDir, NoType, "property"),
     PtrStep("pals", NoDir, NoType, "link"),
     PtrStep("bad", NoDir, NoType, "link"),
     PtrStep("tag", NoDir, NoType, "link"),
     PtrStep("a", NoDir, NoType, "link"),
     PtrStep("__type__", NoDir, NoType, "link")}

LaterSteps ==
    PtrSteps \cup {Step("ObjectRef", "Person", NoDir, NoType, "link", NoType,
                        "none"),
                   Step("Expr", "expr", NoDir, NoType, "link", "str", "self")}

RECURSIVE SeqsUpTo(_, _)
SeqsUpTo(S, n) ==
    IF n = 0 THEN {<<>>}
    ELSE LET shorter == SeqsUpTo(S, n - 1)
         IN shorter \cup {Append(q, x) : q \in shorter, x \in S}

\* The path expressions a top-level caller hands in with `budget` steps left.
Paths(budget) ==
    LET n == IF budget < MaxSteps THEN budget ELSE MaxSteps
    IN {[partial |-> FALSE, steps |-> <<r>> \o q] :
          r \in ObjectRefs \cup ExprRoots, q \in SeqsUpTo(LaterSteps, n)}
       \cup {[partial |-> TRUE, steps |-> <<st>>] :
               st \in IF n > 0 THEN {PtrStep("friends", NoDir, NoType, "link")}
                      ELSE {}}

\* The defining expressions of the computed pointers (ctx.source_map[ptrcls]
\* and the parsed default): a path, or a constant expression.  The one of
\* Person.bad is a partial path (.friends), which has no prefix to bind to
\* once _get_computable_ctx has reset partial_path_prefix.
Body(p) ==
    CASE p = "Person.pals" ->
           [k |-> "path",
            path |-> [partial |-> FALSE,
                      steps |-> <<Step("ObjectRef", "Person", NoDir, NoType,
                                       "link", NoType, "none"),
                                  PtrStep("friends", NoDir, NoType, "link")>>]]
      [] p = "PView.friends" ->
           [k |-> "path",
            path |-> [partial |-> FALSE,
                      steps |-> <<SourceRoot,
                                  PtrStep("friends", NoDir, NoType, "link")>>]]
      [] p = "Person.bad" ->
           [k |-> "path",
            path |-> [partial |-> TRUE,
                      steps |-> <<PtrStep("friends", NoDir, NoType, "link")>>]]
      [] OTHER ->
           [k |-> "const", path |-> [partial |-> FALSE, steps |-> <<>>]]

NoNs == <<"ns", -1>>

\* ctx.source_map[ptrcls][3]: the namespace tag recorded with the expression.
RecordedNs(p) == IF p = "PView.friends" THEN <<"ns", -2>> ELSE NoNs

\* ctx.source_map[ptrcls][2]: the source path id recorded with the expression.
InnerSourcePathId(p) ==
    IF p = "PView.friends" THEN from_type("PView", -1, {}) ELSE NoPath

\* ------------------------------------------------------------ dispatcher

\* dispatch.compile of a sub-expression used as a path root: a constant (not
\* a Set), or a Set the sub-statement built and registered in its scope.
dispatch_compile(h, c, step) ==
    With([k |-> "expr", arg |-> 0, ty |-> step.ty], LAMBDA expr :
      CASE step.reg = "self" ->
             With(generated_set(h, c, expr, NoPath), LAMBDA g :
               [h |-> register_set_in_scope(g.h, g.val, c.path_scope),
                val |-> g.val, err |-> "none", is_set |-> TRUE,
                expr |-> expr])
        [] step.reg = "ind" ->
             With(class_set(h, c, "Person"), LAMBDA cs :
               class_indirection_set(
                   register_set_in_scope(cs.h, cs.val, c.path_scope), c,
                   cs.val, "Employee", FALSE)
               @@ [is_set |-> TRUE, expr |-> expr])
        [] OTHER ->
             [h |-> h, val |-> 0, err |-> "none", is_set |-> FALSE,
              expr |-> expr])

\* Type.implicitly_castable_to
implicitly_castable_to(t, u) == issubclass(t, u)

\* ensure_set(expr, typehint=...): d is what was compiled, a Set or not.
ensure_set(h, c, d, typehint) ==
    With(IF d.is_set THEN Ret(h, d.val)
         ELSE generated_set(h, c, d.expr, NoPath), LAMBDA r :
      IF /\ typehint # NoType
         /\ ~implicitly_castable_to(get_set_type(r.h, r.val), typehint)
      THEN Raise(r.h, "QueryError")
      ELSE r)

\* ensure_stmt(expr) of a Set: irast.SelectStmt(result=ensure_set(expr),
\* implicit_wrapper=True).
ensure_stmt(s) == [k |-> "wrapper", arg |-> s, ty |-> NoType]

\* scoped_set that never wraps the Set before it assigns the scope.
scoped_set_unwrapped(h, c, d, typehint, path_id, force_reassign) ==
    With(IF d.is_set THEN Ret(h, d.val)
         ELSE generated_set(h, c, d.expr, path_id), LAMBDA r :
      Ret(assign_set_scope(r.h, r.val, c.path_scope), r.val))

\* scoped_set(expr, typehint=..., path_id=..., force_reassign=...): d is the
\* expression, a Set or not.
scoped_set(h, c, d, typehint, path_id, force_reassign) ==
    IF ~d.is_set
    THEN With(generated_set(h, c, d.expr, path_id), LAMBDA g :
           Ret(assign_set_scope(g.h, g.val, c.path_scope), g.val))
    ELSE With(IF typehint # NoType THEN ensure_set(h, c, d, typehint)
              ELSE Ret(h, d.val), LAMBDA r :
           IF r.err # "none" THEN r
           ELSE IF r.h.sets[r.val].path_scope_id = 0 \/ force_reassign
           THEN With(IF /\ find_child(r.h.nodes, c.path_scope,
                                     r.h.sets[r.val].path_id) # 0
                        /\ path_id = NoPath
                     THEN generated_set(r.h, c, ensure_stmt(r.val), NoPath)
                     ELSE r, LAMBDA w :
                  Ret(assign_set_scope(w.h, w.val, c.path_scope), w.val))
           ELSE r)

\* ------------------------------------------------------------------ frames

NoPathExpr == [partial |-> FALSE, steps |-> <<>>]

\* An activation of compile_path or computable_ptr_set.  base is the depth of
\* the context stack at entry and entry the caller's context level then.
Frame(fn, pc, base, entry, path, rptr) ==
    [fn |-> fn, pc |-> pc, base |-> base, entry |-> entry, path |-> path,
     i |-> 1, path_tip |-> 0, computables |-> <<>>, path_sets |-> <<>>,
     extra_scopes |-> <<>>, ci |-> 1, ei |-> 1, src |-> NoType,
     dir |-> NoDir, tgt |-> NoType, rptr |-> rptr, source_set |-> 0,
     source_path_id |-> NoPath, got |-> 0]

Top == frames[Len(frames)]

Running(fn, pc) ==
    /\ exc = "none"
    /\ frames # <<>>
    /\ Top.fn = fn
    /\ Top.pc = pc

SetHeap(h) ==
    /\ sets' = h.sets
    /\ ptrs' = h.ptrs
    /\ set_types' = h.set_types
    /\ nodes' = h.nodes
    /\ schema' = h.schema
    /\ aliases' = h.aliases

SetTop(f) == frames' = [frames EXCEPT ![Len(frames)] = f]

NoOutcome == [status |-> "none", val |-> 0, err |-> "none"]

\* The frame on top returns val: its caller goes on with it, or the
\* top-level call is over.
ReturnFrom(val) ==
    IF Len(frames) = 1
    THEN /\ frames' = <<>>
         /\ outcome' = [status |-> "ok", val |-> val, err |-> "none"]
    ELSE /\ frames' = [Pop(frames) EXCEPT ![Len(frames) - 1].got = val]
         /\ UNCHANGED outcome

\* A raise inside the frame on top.
RaiseIn(e) == exc' = e

\* ------------------------------------------------------------ compile_path

\* The context level compile_path was called with.
FrameCtx(f) == ctxs[f.base]

\* A top-level caller compiles a path expression.
Call(path) ==
    /\ frames = <<>>
    /\ exc = "none"
    /\ outcome.status # "error"
    /\ calls < MaxCalls
    /\ frames' = <<Frame("compile_path", "start", Len(ctxs), CurCtx, path, 0)>>
    /\ calls' = calls + 1
    /\ work' = work + Len(path.steps) - (IF path.partial THEN 0 ELSE 1)
    /\ outcome' = NoOutcome
    /\ UNCHANGED <<sets, ptrs, set_types, nodes, schema, aliases, ctxs, exc,
                   op>>

\* compile_path, lines 135-149: a partial path starts at the prefix.
CpStart ==
    /\ Running("compile_path", "start")
    /\ LET f == Top
           c == FrameCtx(f)
       IN IF f.path.partial /\ c.partial_path_prefix = 0
          THEN RaiseIn("QueryError") /\ UNCHANGED frames
          ELSE /\ SetTop([f EXCEPT !.pc = "step",
                                   !.path_tip = IF f.path.partial
                                                THEN c.partial_path_prefix
                                                ELSE 0])
               /\ UNCHANGED exc
    /\ UNCHANGED <<sets, ptrs, set_types, nodes, schema, aliases, ctxs,
                   outcome, calls, work, op>>

\* compile_path, lines 260-271: the view remap of the tip, and the tip
\* joins path_sets.
FinishStep(h, c, f, tip) ==
    LET prefixes == weak_namespace_prefixes(h.sets[tip].path_id)
        hits == {k \in 1..Len(prefixes) : view_map_get(c, prefixes[k]) # 0}
        mapped == IF hits = {} THEN 0
                  ELSE view_map_get(c, prefixes[Lowest(hits)])
        r == IF mapped = 0 THEN Ret(h, tip)
             ELSE new_set(h, get_set_type(h, tip), h.sets[mapped].path_id,
                          0, h.sets[mapped].expr, h.sets[mapped].rptr)
    IN [h |-> r.h,
        f |-> [f EXCEPT !.path_tip = r.val,
                        !.path_sets = Append(@, r.val),
                        !.i = @ + 1,
                        !.pc = IF f.i = Len(f.path.steps) THEN "register"
                               ELSE "step"]]

CurStep == Top.path.steps[Top.i]

\* compile_path, lines 152-160: 'self' is the anchor.
CpAnchor ==
    /\ Running("compile_path", "step")
    /\ CurStep.k = "Source"
    /\ LET f == Top
           c == FrameCtx(f)
           r == FinishStep(Heap, c, f, c.self)
       IN IF c.self = 0
          THEN RaiseIn("KeyError") /\ UNCHANGED <<frames, sets, ptrs,
                   set_types, nodes, schema, aliases>>
          ELSE SetTop(r.f) /\ SetHeap(r.h) /\ UNCHANGED exc
    /\ UNCHANGED <<ctxs, outcome, calls, work, op>>

\* compile_path, lines 162-195: a type or view reference.
ObjectRefStep(h, c, f, step) ==
    LET stype == step.name
        r1 == class_set(h, c, stype)
        view_set == IF stype \in DOMAIN c.view_sets THEN c.view_sets[stype]
                    ELSE 0
        r2 == IF view_set = 0 THEN r1
              ELSE new_set_from_set(r1.h, c, view_set, FALSE, NoPath, NoType)
        r3 == IF view_set = 0 THEN r2
              ELSE copy_tree(r2.h, path_scope_map[view_set])
        f1 == IF view_set = 0 THEN f
              ELSE [f EXCEPT !.extra_scopes = Append(@, <<r2.val, r3.val>>)]
    IN FinishStep(r3.h, c, f1, r2.val)

CpObjectRef ==
    /\ Running("compile_path", "step")
    /\ CurStep.k = "ObjectRef"
    /\ LET f == Top
           r == ObjectRefStep(Heap, FrameCtx(f), f, CurStep)
       IN IF f.i > 1
          THEN RaiseIn("RuntimeError") /\ UNCHANGED <<frames, sets, ptrs,
                   set_types, nodes, schema, aliases>>
          ELSE SetTop(r.f) /\ SetHeap(r.h) /\ UNCHANGED exc
    /\ UNCHANGED <<ctxs, outcome, calls, work, op>>

\* `with ctx.newscope(fenced=True, temporary=True) as subctx`: the new level
\* and its fence node under the current scope pointer.
OpenScope(c) ==
    /\ nodes' = Append(nodes, NodeRec(NoPath, TRUE, c.path_scope))
    /\ ctxs' = Append(ctxs, ctx_newscope(c, Len(nodes) + 1))

\* compile_path, lines 197-225: the step's direction, type filter and source,
\* then the fenced scope is opened.
CpPtrOpen ==
    /\ Running("compile_path", "step")
    /\ CurStep.k = "Ptr"
    /\ LET f == Top
           c == FrameCtx(f)
           step == CurStep
           direction == IF step.dir = NoDir THEN Outbound ELSE step.dir
           rptr == sets[f.path_tip].rptr
           source == IF step.type = "property" THEN ptrs[rptr].ptrref
                     ELSE get_set_type(Heap, f.path_tip)
       IN IF step.target # NoType /\ step.target \notin ObjectTypes
          THEN RaiseIn("QueryError") /\ UNCHANGED <<frames, nodes, ctxs>>
          ELSE IF step.type = "property" /\ rptr = 0
          THEN RaiseIn("AttributeError") /\ UNCHANGED <<frames, nodes, ctxs>>
          ELSE /\ OpenScope(c)
               /\ SetTop([f EXCEPT !.pc = "ptr_body", !.src = source,
                                   !.dir = direction, !.tgt = step.target])
               /\ UNCHANGED exc
    /\ UNCHANGED <<sets, ptrs, set_types, schema, aliases, outcome, calls,
                   work, op>>

\* compile_path, lines 226-241: inside the fenced scope.
CpPtrBody ==
    /\ Running("compile_path", "ptr_body")
    /\ With(Top, LAMBDA f :
       With(IF f.src \in TupleTypes
            THEN tuple_indirection_set(Heap, CurCtx, f.path_tip, f.src,
                                       CurStep.name)
            ELSE ptr_step_set(Heap, CurCtx, f.path_tip, f.src, CurStep.name,
                              f.dir, f.tgt), LAMBDA r :
         LET ptrref == r.h.ptrs[r.h.sets[r.val].rptr].ptrref
             deferred == /\ f.src \notin TupleTypes
                         /\ ptrref \in PtrIds
                         /\ is_computable_ptr(FrameCtx(f), ptrref, FALSE)
         IN /\ SetHeap(r.h)
            /\ IF r.err # "none"
               THEN RaiseIn(r.err) /\ UNCHANGED frames
               ELSE /\ SetTop([f EXCEPT !.pc = "close", !.path_tip = r.val,
                                        !.computables =
                                            IF deferred THEN Append(@, r.val)
                                            ELSE @])
                    /\ UNCHANGED exc))
    /\ UNCHANGED <<ctxs, outcome, calls, work, op>>

\* compile_path that takes a sub-expression at any position of the path.
CpExprOpen_anywhere ==
    /\ Running("compile_path", "step")
    /\ CurStep.k = "Expr"
    /\ OpenScope(FrameCtx(Top))
    /\ SetTop([Top EXCEPT !.pc = "expr_body"])
    /\ UNCHANGED <<sets, ptrs, set_types, schema, aliases, exc, outcome,
                   calls, work, op>>

\* compile_path, lines 243-249: a sub-expression, legal as the root only.
CpExprOpen ==
    /\ Running("compile_path", "step")
    /\ CurStep.k = "Expr"
    /\ LET f == Top
       IN IF f.i > 1
          THEN RaiseIn("RuntimeError") /\ UNCHANGED <<frames, nodes, ctxs>>
          ELSE /\ OpenScope(FrameCtx(f))
               /\ SetTop([f EXCEPT !.pc = "expr_body"])
               /\ UNCHANGED exc
    /\ UNCHANGED <<sets, ptrs, set_types, schema, aliases, outcome, calls,
                   work, op>>

\* compile_path, lines 250-258.
CpExprBody ==
    /\ Running("compile_path", "expr_body")
    /\ With(dispatch_compile(Heap, CurCtx, CurStep), LAMBDA d :
       With(ensure_set(d.h, CurCtx, d, NoType), LAMBDA r :
         LET path_tip == r.val
             scope_set ==
                 IF is_type_indirection_path(r.h.sets[path_tip].path_id)
                 THEN r.h.ptrs[r.h.sets[path_tip].rptr].source
                 ELSE path_tip
         IN /\ SetHeap(r.h)
            /\ SetTop([Top EXCEPT !.pc = "close", !.path_tip = path_tip,
                                  !.extra_scopes =
                                      Append(@, <<scope_set,
                                                  CurCtx.path_scope>>)])))
    /\ UNCHANGED <<ctxs, exc, outcome, calls, work, op>>

\* The fenced scope of a step is left, and the step ends (lines 260-271).
CpClose ==
    /\ Running("compile_path", "close")
    /\ LET f == Top
           h == [Heap EXCEPT !.nodes = PopNodes(@, CurCtx)]
           r == FinishStep(h, FrameCtx(f), f, f.path_tip)
       IN /\ SetHeap(r.h)
          /\ SetTop(r.f)
          /\ ctxs' = Pop(ctxs)
    /\ UNCHANGED <<exc, outcome, calls, work, op>>

\* compile_path, lines 273-274.
CpRegister ==
    /\ Running("compile_path", "register")
    /\ LET f == Top
           c == FrameCtx(f)
       IN /\ SetHeap(register_set_in_scope(Heap, f.path_tip, c.path_scope))
          /\ SetTop([f EXCEPT !.pc = "deferred"])
    /\ UNCHANGED <<ctxs, exc, outcome, calls, work, op>>

\* ------------------------------------------------------- fuse_scope_branch

\* fuse_scope_branch without the normalisation of the branch: an anonymous
\* wrapper is never looked through.
fuse_scope_branch_no_collapse(h, parent, branch) ==
    With(new_scope_tree(h), LAMBDA r :
      IF h.nodes[parent].path_id # NoPath
         /\ h.nodes[parent].path_id = h.nodes[branch].path_id
      THEN [r.h EXCEPT !.nodes =
              attach_subtree(
                  [n \in 1..Len(r.h.nodes) |->
                     IF r.h.nodes[n].parent = branch
                     THEN [r.h.nodes[n] EXCEPT !.parent = r.val]
                     ELSE r.h.nodes[n]], parent, r.val)]
      ELSE [h EXCEPT !.nodes = attach_subtree(h.nodes, parent, branch)])

\* fuse_scope_branch that attaches the normalised branch where the code
\* attaches the branch it was handed.
fuse_scope_branch_target_only(h, parent, branch) ==
    With(IF h.nodes[branch].path_id = NoPath
            /\ Cardinality(Children(h.nodes, branch)) = 1
         THEN CHOOSE k \in Children(h.nodes, branch) : TRUE
         ELSE branch, LAMBDA target_branch :
    With(new_scope_tree(h), LAMBDA r :
      IF h.nodes[parent].path_id # NoPath
         /\ h.nodes[parent].path_id = h.nodes[target_branch].path_id
      THEN [r.h EXCEPT !.nodes =
              attach_subtree(
                  [n \in 1..Len(r.h.nodes) |->
                     IF r.h.nodes[n].parent = target_branch
                     THEN [r.h.nodes[n] EXCEPT !.parent = r.val]
                     ELSE r.h.nodes[n]], parent, r.val)]
      ELSE [h EXCEPT !.nodes =
              attach_subtree(h.nodes, parent, target_branch)]))

\* fuse_scope_branch(ir_set, parent, branch)
fuse_scope_branch(h, parent, branch) ==
    LET ns == h.nodes
        kids == Children(ns, branch)
        target_branch == IF ns[branch].path_id = NoPath /\ Cardinality(kids) = 1
                         THEN CHOOSE k \in kids : TRUE
                         ELSE branch
        r == new_scope_tree(h)
        new_root == r.val
        moved == [n \in 1..Len(r.h.nodes) |->
                    IF r.h.nodes[n].parent = target_branch
                    THEN [r.h.nodes[n] EXCEPT !.parent = new_root]
                    ELSE r.h.nodes[n]]
    IN IF ns[parent].path_id = NoPath
       THEN [h EXCEPT !.nodes = attach_subtree(ns, parent, branch)]
       ELSE IF ns[parent].path_id = ns[target_branch].path_id
       THEN [r.h EXCEPT !.nodes = attach_subtree(moved, parent, new_root)]
       ELSE [h EXCEPT !.nodes = attach_subtree(ns, parent, branch)]

\* ------------------------------------------- compile_path, after the steps

FirstIndex(seq, x) == Lowest({j \in 1..Len(seq) : seq[j] = x})

\* compile_path, lines 276-285: the next deferred computable is skipped, or
\* expanded in a context scoped to its node.
CpDeferred ==
    /\ Running("compile_path", "deferred")
    /\ LET f == Top
           c == FrameCtx(f)
           ir_set == f.computables[f.ci]
           scope == find_descendant(nodes, c.path_scope, sets[ir_set].path_id)
       IN IF f.ci > Len(f.computables)
          THEN SetTop([f EXCEPT !.pc = "fuse"]) /\ UNCHANGED ctxs
          ELSE IF scope = 0
          THEN SetTop([f EXCEPT !.ci = @ + 1]) /\ UNCHANGED ctxs
          ELSE /\ Len(frames) < MaxDepth
               /\ ctxs' = Append(ctxs, [ctx_new(c) EXCEPT !.path_scope = scope])
               /\ frames' = Append([frames EXCEPT ![Len(frames)].pc =
                                                      "deferred_ret"],
                                   Frame("computable_ptr_set", "enter",
                                         Len(ctxs) + 1,
                                         [ctx_new(c) EXCEPT
                                              !.path_scope = scope],
                                         NoPathExpr, sets[ir_set].rptr))
    /\ UNCHANGED <<sets, ptrs, set_types, nodes, schema, aliases, exc,
                   outcome, calls, work, op>>

\* The splice that puts the expansion into path_sets and leaves the next
\* step's edge on the deferred Set.
Splice_no_relink(h, f, ir_set, comp_ir_set) ==
    LET i == FirstIndex(f.path_sets, ir_set)
    IN [h |-> h,
        f |-> [f EXCEPT !.path_tip = IF i = Len(f.path_sets) THEN comp_ir_set
                                     ELSE @,
                        !.path_sets[i] = comp_ir_set,
                        !.ci = @ + 1,
                        !.pc = "deferred"]]

\* compile_path, lines 286-291: the expansion takes the deferred Set's place.
Splice(h, f, ir_set, comp_ir_set) ==
    LET i == FirstIndex(f.path_sets, ir_set)
        last == i = Len(f.path_sets)
        nxt == h.sets[f.path_sets[i + 1]].rptr
    IN [h |-> IF last THEN h ELSE [h EXCEPT !.ptrs[nxt].source = comp_ir_set],
        f |-> [f EXCEPT !.path_tip = IF last THEN comp_ir_set ELSE @,
                        !.path_sets[i] = comp_ir_set,
                        !.ci = @ + 1,
                        !.pc = "deferred"]]

CpDeferredRet ==
    /\ Running("compile_path", "deferred_ret")
    /\ LET f == Top
           ir_set == f.computables[f.ci]
           r == Splice(Heap, f, ir_set, f.got)
       IN IF \A j \in 1..Len(f.path_sets) : f.path_sets[j] # ir_set
          THEN /\ RaiseIn("ValueError")
               /\ UNCHANGED <<sets, ptrs, set_types, nodes, schema, aliases,
                              frames, ctxs>>
          ELSE /\ SetHeap(r.h)
               /\ SetTop(r.f)
               /\ ctxs' = Pop(ctxs)
               /\ UNCHANGED exc
    /\ UNCHANGED <<outcome, calls, work, op>>

\* The fusion step that leaves a Set without scope id as it is.
FuseStep_no_assign(h, c, f) ==
    LET ir_set == f.extra_scopes[f.ei][1]
        scope == f.extra_scopes[f.ei][2]
        node == find_descendant(h.nodes, c.path_scope, h.sets[ir_set].path_id)
    IN IF node = 0 THEN h ELSE fuse_scope_branch(h, node, scope)

\* compile_path, lines 293-303: one recorded sub-scope is fused, or skipped.
FuseStep(h, c, f) ==
    LET ir_set == f.extra_scopes[f.ei][1]
        scope == f.extra_scopes[f.ei][2]
        node == find_descendant(h.nodes, c.path_scope, h.sets[ir_set].path_id)
        h1 == fuse_scope_branch(h, node, scope)
    IN IF node = 0 THEN h
       ELSE IF h1.sets[ir_set].path_scope_id = 0
       THEN assign_set_scope(h1, ir_set, node)
       ELSE h1

CpFuse ==
    /\ Running("compile_path", "fuse")
    /\ LET f == Top
       IN IF f.ei > Len(f.extra_scopes)
          THEN /\ SetTop([f EXCEPT !.pc = "return"])
               /\ UNCHANGED <<sets, ptrs, set_types, nodes, schema, aliases>>
          ELSE /\ SetHeap(FuseStep(Heap, FrameCtx(f), f))
               /\ SetTop([f EXCEPT !.ei = @ + 1])
    /\ UNCHANGED <<ctxs, exc, outcome, calls, work, op>>

\* compile_path, line 305.
CpReturn ==
    /\ Running("compile_path", "return")
    /\ ReturnFrom(Top.path_tip)
    /\ UNCHANGED <<sets, ptrs, set_types, nodes, schema, aliases, ctxs, exc,
                   calls, work, op>>

\* ------------------------------------------------------ computable_ptr_set

\* _get_computable_ctx(...).newctx(), up to the yield: the child level of
\* the call site's context, the minted namespace tag, and the view-map entry
\* that binds the inner self path to the remapped outer source.
get_computable_ctx(h, c, rptr, source, source_scls, inner_source_path_id, path_id_ns, same_scope, qlctx) ==
    LET source_stype == get_set_type(h, source)
        source_scope == get_set_scope(h, h.ptrs[rptr].source)
        ns1 == c.path_id_namespace
               \cup (IF source_scope # 0 THEN h.nodes[source_scope].namespaces
                     ELSE {})
               \cup (IF path_id_ns # NoNs THEN {path_id_ns} ELSE {})
        own == {<<"ns", h.aliases>>}
               \cup (IF path_id_ns # NoNs /\ same_scope THEN {path_id_ns}
                     ELSE {})
        h1 == [h EXCEPT !.aliases = @ + 1]
        self_view == IF source_stype \in DOMAIN c.view_sets
                     THEN c.view_sets[source_stype] ELSE 0
        subns == own \cup (IF self_view # 0 THEN h.sets[self_view].path_id.ns
                           ELSE h.sets[source].path_id.ns)
        inner_path_id ==
            IF self_view # 0
            THEN merge_namespace(h.sets[self_view].path_id, ns1 \cup subns)
            ELSE merge_namespace(
                     IF inner_source_path_id # NoPath
                     THEN merge_namespace(
                              strip_namespace(inner_source_path_id,
                                              qlctx.path_id_namespace), ns1)
                     ELSE from_type(source_stype, -1, ns1),
                     subns)
        r == new_set_from_set(h1, c, h.ptrs[rptr].source, FALSE, NoPath,
                              NoType)
        subctx == [ctx_new(c) EXCEPT
                     !.partial_path_prefix = 0,
                     !.aliased_views =
                         qlctx.aliased_views
                         \cup (IF is_view(source_scls) THEN {source_stype}
                               ELSE {}),
                     !.source_map = qlctx.source_map,
                     !.view_sets = qlctx.view_sets,
                     !.view_map = Append(qlctx.view_map,
                                         [key |-> inner_path_id,
                                          val |-> r.val]),
                     !.path_id_namespace = ns1,
                     !.pending_own = own,
                     !.pending_ns = subns]
    IN [h |-> r.h, subctx |-> subctx, inner_path_id |-> inner_path_id]

\* computable_ptr_set that expands over the source as it is, view-typed or
\* not.
RebindSource_keep_view(h, c, rptr) == Ret(h, h.ptrs[rptr].source)

\* computable_ptr_set, lines 682-709: a view-typed source is rebound to a
\* fresh Set over the base type.
RebindSource(h, c, rptr) ==
    With(h.ptrs[rptr].source, LAMBDA source0 :
    With(get_set_type(h, source0), LAMBDA source_scls :
      IF ~is_view(source_scls) THEN Ret(h, source0)
      ELSE
        With(new_set_from_set(h, c, source0, TRUE, NoPath, NoType), LAMBDA r :
        With([update_set_type(r.h, r.val, peel_view(source_scls))
                EXCEPT !.sets[r.val].shape = FALSE], LAMBDA h1 :
        With(h1.sets[r.val].rptr, LAMBDA srptr :
          IF srptr = 0 THEN Ret(h1, r.val)
          ELSE
            With(IF h1.ptrs[srptr].ptrref \in PtrIds
                 THEN PtrTable[h1.ptrs[srptr].ptrref].derived_from
                 ELSE NoType, LAMBDA derived_from :
              IF /\ derived_from # NoType
                 /\ PtrTable[derived_from].derived_from # NoType
                 /\ is_link_property(h.ptrs[rptr].ptrref)
              THEN Ret([h1 EXCEPT !.ptrs[srptr].ptrref = derived_from],
                       r.val)
              ELSE Ret(h1, r.val)))))))

\* dispatch.compile of a statement: its level takes the pending namespace
\* into the path-id namespace and tags the scope node with its own.
StmtCtx(subctx) ==
    [ctx_new(subctx) EXCEPT !.path_id_namespace = @ \cup subctx.pending_ns,
                            !.pending_own = {}, !.pending_ns = {},
                            !.mode = "stmt"]

StmtNodes(ns, subctx) ==
    [ns EXCEPT ![subctx.path_scope].namespaces = @ \cup subctx.pending_own]

\* computable_ptr_set, lines 674-756: up to the compilation of the defining
\* expression in the nested context.
ComputableOpen(h, c, rptr) ==
    With(h.ptrs[rptr].ptrref, LAMBDA ptrcls :
    With(RebindSource(h, c, rptr), LAMBDA r1 :
      IF ptrcls \in DOMAIN c.source_map
      THEN With(get_computable_ctx(
                    r1.h, c, rptr, r1.val,
                    get_set_type(h, h.ptrs[rptr].source),
                    InnerSourcePathId(ptrcls), RecordedNs(ptrcls), FALSE,
                    TopCtx), LAMBDA g :
           With([g.subctx EXCEPT !.self = r1.val], LAMBDA subctx :
             [h |-> [g.h EXCEPT !.nodes = StmtNodes(@, subctx)],
              err |-> "none", subctx |-> subctx, source_set |-> r1.val]))
      ELSE IF ~PtrTable[ptrcls].has_default
      THEN [h |-> r1.h, err |-> "ValueError", subctx |-> c,
            source_set |-> r1.val]
      ELSE With(new_scope_tree(r1.h), LAMBDA r2 :
           With([ctx_detached(c, r2.val) EXCEPT !.self = r1.val],
                LAMBDA subctx :
             [h |-> [r2.h EXCEPT !.nodes = StmtNodes(@, subctx)],
              err |-> "none", subctx |-> subctx, source_set |-> r1.val]))))

CsEnter ==
    /\ Running("computable_ptr_set", "enter")
    /\ With(Top, LAMBDA f :
       With(ComputableOpen(Heap, FrameCtx(f), f.rptr), LAMBDA o :
         IF o.err # "none"
         THEN /\ RaiseIn(o.err)
              /\ SetHeap(o.h)
              /\ UNCHANGED <<frames, ctxs>>
         ELSE
           With(StmtCtx(o.subctx), LAMBDA stmt :
           With([f EXCEPT !.pc = "body_ret", !.source_set = o.source_set,
                          !.source_path_id =
                              IF is_link_property(ptrs[f.rptr].ptrref)
                              THEN ptr_path(
                                       sets[ptrs[f.rptr].source].path_id)
                              ELSE src_path(
                                       sets[ptrs[f.rptr].target].path_id)],
                LAMBDA f1 :
           With(Body(ptrs[f.rptr].ptrref), LAMBDA body :
             /\ ctxs' = ctxs \o <<o.subctx, stmt>>
             /\ UNCHANGED exc
             /\ IF body.k = "path"
                THEN /\ Len(frames) < MaxDepth
                     /\ SetHeap(o.h)
                     /\ frames' = Append(
                            [frames EXCEPT ![Len(frames)] = f1],
                            Frame("compile_path", "start", Len(ctxs) + 2,
                                  stmt, body.path, 0))
                ELSE With(generated_set(
                              o.h, stmt,
                              [k |-> "expr", arg |-> 0, ty |-> "str"],
                              NoPath), LAMBDA g :
                       /\ SetHeap(g.h)
                       /\ SetTop([f1 EXCEPT !.got = g.val]))))))) 
    /\ UNCHANGED <<outcome, calls, work, op>>

\* computable_ptr_set that leaves the compiled expression's own PathId on the
\* returned Set (no `comp_ir_set.path_id = path_id`).
ComputableClose_keep_path_id(h, c, source_path_id, rptr, got) ==
    With(h.ptrs[rptr].ptrref, LAMBDA ptrcls :
    With(IF Body(ptrcls).k = "path"
         THEN new_set(h, get_set_type(h, got), h.sets[got].path_id, 0,
                      [k |-> "stmt", arg |-> got, ty |-> NoType], 0)
         ELSE Ret(h, got), LAMBDA r :
      Ret([update_set_type(r.h, r.val, PtrTable[ptrcls].target)
             EXCEPT !.sets[r.val].rptr = rptr,
                    !.ptrs[rptr].target = r.val], r.val)))

\* computable_ptr_set, lines 758-787: the nested context is left and the
\* compiled expression becomes the target of the pointer.
ComputableClose(h, c, source_path_id, rptr, got) ==
    With(h.ptrs[rptr].ptrref, LAMBDA ptrcls :
    With(IF Body(ptrcls).k = "path"
         THEN new_set(h, get_set_type(h, got), h.sets[got].path_id, 0,
                      [k |-> "stmt", arg |-> got, ty |-> NoType], 0)
         ELSE Ret(h, got), LAMBDA r :
    With(extend_path_id(source_path_id, ptrcls, Outbound,
                        PtrTable[ptrcls].target, c.path_id_namespace),
         LAMBDA path_id :
      Ret([update_set_type(r.h, r.val, PtrTable[ptrcls].target)
             EXCEPT !.sets[r.val].path_id = path_id,
                    !.sets[r.val].rptr = rptr,
                    !.ptrs[rptr].target = r.val], r.val))))

\* What a finished expansion leaves in the log: the pointer, the call site
\* (its Pointer edge), the returned Set with its PathId and type, and the
\* inner self PathId and the tag _get_computable_ctx minted for the call.
Expansion(h, f, c, subctx, ret) ==
    [ptrcls |-> h.ptrs[f.rptr].ptrref, rptr |-> f.rptr, ret |-> ret,
     path_id |-> h.sets[ret].path_id, stype |-> get_set_type(h, ret),
     source_path_id |-> f.source_path_id, ns |-> c.path_id_namespace,
     inner_path_id |-> IF subctx.mode = "detached" THEN NoPath
                       ELSE subctx.view_map[Len(subctx.view_map)].key,
     tags |-> subctx.pending_own]

CsBodyRet ==
    /\ Running("computable_ptr_set", "body_ret")
    /\ LET f == Top
           r == ComputableClose(Heap, FrameCtx(f), f.source_path_id, f.rptr,
                                f.got)
       IN /\ SetHeap(r.h)
          /\ ctxs' = SubSeq(ctxs, 1, f.base)
          /\ ReturnFrom(r.val)
          /\ op' = [op EXCEPT !.log = Append(@, Expansion(
                        r.h, f, FrameCtx(f), ctxs[f.base + 1], r.val))]
    /\ UNCHANGED <<exc, calls, work>>

\* --------------------------------------------------------------- unwinding

\* An exception that leaves the frame on top with its `with` blocks open.
Unwind_leaky ==
    /\ exc # "none"
    /\ frames # <<>>
    /\ IF Len(frames) = 1
       THEN /\ frames' = <<>>
            /\ outcome' = [status |-> "error", val |-> 0, err |-> exc]
            /\ exc' = "none"
       ELSE /\ frames' = Pop(frames)
            /\ UNCHANGED <<exc, outcome>>
    /\ UNCHANGED <<sets, ptrs, set_types, nodes, schema, aliases, ctxs, calls,
                   work, op>>

\* An exception that ends the top-level call with the Sets built so far
\* handed back as its result.
Unwind_partial ==
    /\ exc # "none"
    /\ frames # <<>>
    /\ IF Len(ctxs) > Top.base
       THEN /\ ctxs' = Pop(ctxs)
            /\ nodes' = PopNodes(nodes, CurCtx)
            /\ UNCHANGED <<frames, exc, outcome>>
       ELSE IF Len(frames) = 1
       THEN /\ frames' = <<>>
            /\ outcome' = [status |-> "ok", val |-> Top.path_tip,
                           err |-> "none"]
            /\ exc' = "none"
            /\ UNCHANGED <<ctxs, nodes>>
       ELSE /\ frames' = Pop(frames)
            /\ UNCHANGED <<ctxs, nodes, exc, outcome>>
    /\ UNCHANGED <<sets, ptrs, set_types, schema, aliases, calls, work, op>>

\* An exception leaves the `with` blocks of the frame on top, innermost
\* first, then the frame; out of the last frame it ends the call.
Unwind ==
    /\ exc # "none"
    /\ frames # <<>>
    /\ IF Len(ctxs) > Top.base
       THEN /\ ctxs' = Pop(ctxs)
            /\ nodes' = PopNodes(nodes, CurCtx)
            /\ UNCHANGED <<frames, exc, outcome>>
       ELSE IF Len(frames) = 1
       THEN /\ frames' = <<>>
            /\ outcome' = [status |-> "error", val |-> 0, err |-> exc]
            /\ exc' = "none"
            /\ UNCHANGED <<ctxs, nodes>>
       ELSE /\ frames' = Pop(frames)
            /\ UNCHANGED <<ctxs, nodes, exc, outcome>>
    /\ UNCHANGED <<sets, ptrs, set_types, schema, aliases, calls, work, op>>

\* ------------------------------------------------------------ specification

\* No operation recorded, no expansion logged.
NoOp == [k |-> "none", log |-> <<>>]

\* The view Set of PView and the scope captured with it.
InitSets ==
    <<[SetRec(from_type("PView", -1, {}), type_to_typeref("PView"), 0,
              [k |-> "stmt", arg |-> 0, ty |-> "PView"], 0, "Set")
         EXCEPT !.shape = TRUE]>>

InitNodes ==
    <<NodeRec(NoPath, TRUE, 0),
      NodeRec(NoPath, TRUE, 0),
      NodeRec(from_type("PView", -1, {}), FALSE, ViewScope),
      NodeRec(from_type("Person", -1, {}), FALSE, 3)>>

Init ==
    /\ sets = InitSets
    /\ ptrs = <<>>
    /\ set_types = (ViewSet :> "PView")
    /\ nodes = InitNodes
    /\ schema = 0
    /\ aliases = 0
    /\ ctxs = <<TopCtx>>
    /\ frames = <<>>
    /\ exc = "none"
    /\ outcome = NoOutcome
    /\ calls = 0
    /\ work = 0
    /\ op = NoOp

Next ==
    \/ \E path \in Paths(MaxWork - work) : Call(path)
    \/ CpStart
    \/ CpAnchor
    \/ CpObjectRef
    \/ CpPtrOpen
    \/ CpPtrBody
    \/ CpExprOpen
    \/ CpExprBody
    \/ CpClose
    \/ CpRegister
    \/ CpDeferred
    \/ CpDeferredRet
    \/ CpFuse
    \/ CpReturn
    \/ CsEnter
    \/ CsBodyRet
    \/ Unwind

Spec == Init /\ [][Next]_vars

\* ------------------------------------------- specification of scoped_set

\* Calls of one run.
MaxOps == 3

\* The node of the view's path in the captured scope.
ViewNode == 3

\* The scope pointers scoped_set is called under.
ScopePointers == {RootScope, ViewNode}

\* What scoped_set is handed: a Set of the compile, or a constant.
ScopedArgs ==
    {[is_set |-> TRUE, val |-> s, expr |-> NoExpr] : s \in 1..Len(sets)}
    \cup {[is_set |-> FALSE, val |-> 0,
           expr |-> [k |-> "expr", arg |-> 0, ty |-> "str"]]}

\* class_set(stype) in the top-level context.
SsClassSet(t) ==
    /\ calls < MaxOps
    /\ With(class_set(Heap, TopCtx, t), LAMBDA r :
         /\ SetHeap(r.h)
         /\ op' = [k |-> "class_set", ret |-> r.val])
    /\ calls' = calls + 1
    /\ UNCHANGED <<ctxs, frames, exc, outcome, work>>

\* pathctx.register_set_in_scope(ir_set) with the scope pointer at scope.
SsRegister(s, scope) ==
    /\ calls < MaxOps
    /\ SetHeap(register_set_in_scope(Heap, s, scope))
    /\ op' = [k |-> "register_set_in_scope", arg |-> s, scope |-> scope]
    /\ calls' = calls + 1
    /\ UNCHANGED <<ctxs, frames, exc, outcome, work>>

\* scoped_set(expr, typehint=..., path_id=..., force_reassign=...) with the
\* scope pointer at scope.
SsScoped(d, scope, typehint, path_id, force_reassign) ==
    /\ calls < MaxOps
    /\ With(scoped_set(Heap, [TopCtx EXCEPT !.path_scope = scope], d,
                       typehint, path_id, force_reassign), LAMBDA r :
         /\ SetHeap(r.h)
         /\ op' = [k |-> "scoped_set", d |-> d, scope |-> scope,
                   typehint |-> typehint, path_id |-> path_id,
                   force_reassign |-> force_reassign,
                   scope_id |-> IF d.is_set THEN sets[d.val].path_scope_id
                                ELSE 0,
                   ret |-> r.val, err |-> r.err])
    /\ calls' = calls + 1
    /\ UNCHANGED <<ctxs, frames, exc, outcome, work>>

NextScoped ==
    \/ \E t \in {"Person", "Employee"} : SsClassSet(t)
    \/ \E s \in 1..Len(sets), scope \in ScopePointers : SsRegister(s, scope)
    \/ \E d \in ScopedArgs, scope \in ScopePointers,
          typehint \in {NoType, "Person"},
          path_id \in {NoPath, from_type("Person", -1, {})},
          force_reassign \in BOOLEAN :
         SsScoped(d, scope, typehint, path_id, force_reassign)

SpecScoped == Init /\ [][NextScoped]_vars

\* ------------------------------------ specification of fuse_scope_branch

\* Scope nodes of one run.
MaxNodes == 6
\* Fusions of one run.
MaxFuses == 2

\* The labels of the scope nodes: none (an anonymous node), or a path.
FuseLabels ==
    {NoPath, from_type("Person", -1, {}), from_type("PView", -1, {})}

\* A scope node comes to be: a detached root (parent 0) or a child.
FsNode(parent, label) ==
    /\ Len(nodes) < MaxNodes
    /\ nodes' = Append(nodes, NodeRec(label, label = NoPath, parent))
    /\ op' = [k |-> "node"]
    /\ UNCHANGED <<sets, ptrs, set_types, schema, aliases, ctxs, frames,
                   exc, outcome, calls, work>>

\* fuse_scope_branch(ir_set, parent, branch) of a detached branch into a
\* node of another tree.
FsFuse(parent, branch) ==
    /\ calls < MaxFuses
    /\ nodes[branch].parent = 0
    /\ parent # branch
    /\ ~IsAncestor(nodes, branch, parent)
    /\ SetHeap(fuse_scope_branch(Heap, parent, branch))
    /\ op' = [k |-> "fuse_scope_branch", parent |-> parent,
              branch |-> branch, before |-> nodes]
    /\ calls' = calls + 1
    /\ UNCHANGED <<ctxs, frames, exc, outcome, work>>

NextFuse ==
    \/ \E parent \in 0..Len(nodes), label \in FuseLabels :
         FsNode(parent, label)
    \/ \E parent \in 1..Len(nodes), branch \in 1..Len(nodes) :
         FsFuse(parent, branch)

SpecFuse == Init /\ [][NextFuse]_vars

\* ------------------------------------ specification of the Set factory

\* The types the factory is asked for.
FactoryTypes == {"Person", "Employee", "str"}

\* One factory operation: the heap it leaves, the Set it made or retyped
\* and the type it assigned to it.
Factory(k, r, stype) ==
    /\ calls < MaxOps
    /\ SetHeap(r.h)
    /\ op' = [k |-> k, ret |-> r.val, stype |-> stype]
    /\ calls' = calls + 1
    /\ UNCHANGED <<ctxs, frames, exc, outcome, work>>

FcNewSet(t) == Factory("new_set", class_set(Heap, TopCtx, t), t)

FcNewEmptySet(t) ==
    Factory("new_empty_set",
            new_empty_set([Heap EXCEPT !.aliases = @ + 1], t, aliases), t)

FcFromSet(s, t) ==
    Factory("new_set_from_set",
            new_set_from_set(Heap, TopCtx, s, FALSE, NoPath, t),
            IF t = NoType THEN set_types[s] ELSE t)

FcIndirection(s, t) ==
    Factory("class_indirection_set",
            class_indirection_set(Heap, TopCtx, s, t, FALSE), t)

FcExpression(t) ==
    Factory("new_expression_set",
            generated_set(Heap, TopCtx, [k |-> "expr", arg |-> 0, ty |-> t],
                          NoPath), t)

FcUpdate(s, t) ==
    Factory("update_set_type", Ret(update_set_type(Heap, s, t), s), t)

NextFactory ==
    \/ \E t \in FactoryTypes : FcNewSet(t)
    \/ \E t \in {NoType, "str"} : FcNewEmptySet(t)
    \/ \E s \in 1..Len(sets), t \in {NoType, "Employee"} :
         (t # NoType \/ set_types[s] # NoType) /\ FcFromSet(s, t)
    \/ \E s \in 1..Len(sets) : FcIndirection(s, "Employee")
    \/ \E t \in {"str"} : FcExpression(t)
    \/ \E s \in 1..Len(sets), t \in FactoryTypes : FcUpdate(s, t)

SpecFactory == Init /\ [][NextFactory]_vars

\* ----------------------------- specification of the expansion over a view

\* The paths over the view and its base type that walk the link the view
\* redefines in terms of self.
ViewPaths(budget) ==
    {p \in Paths(budget) :
       /\ ~p.partial
       /\ p.steps[1].k = "ObjectRef"
       /\ \A j \in 2..Len(p.steps) :
             p.steps[j] = PtrStep("friends", NoDir, NoType, "link")}

\* What the compiler does once it is called: the interpreter runs the call
\* to its end, one step after the other.
Run ==
    \/ CpStart
    \/ CpAnchor
    \/ CpObjectRef
    \/ CpPtrOpen
    \/ CpPtrBody
    \/ CpClose
    \/ CpRegister
    \/ CpDeferred
    \/ CpDeferredRet
    \/ CpFuse
    \/ CpReturn
    \/ CsEnter
    \/ CsBodyRet

NextView ==
    \/ \E path \in ViewPaths(MaxWork - work) : Call(path)
    \/ Run

\* Run can take a step: a call is under way, no exception is in flight (this
\* specification has no failing step), and the stack has room for one more
\* frame.
CanRun == frames # <<>> /\ exc = "none" /\ Len(frames) < MaxDepth

\* Weak fairness of Run, WF_vars(Run) spelled out with CanRun for the
\* enabling condition: the interpreter is synchronous and single-threaded,
\* so a call that can take its next step takes it.
RunIsFair == []<>(~CanRun) \/ []<><<Run>>_vars

SpecView == Init /\ [][NextView]_vars /\ RunIsFair

\* ------------------------------------------ specification of extend_path

\* Calls of extend_path in one run.
MaxExtends == 2

\* The pointers handed to extend_path.
ExtendPtrs ==
    {"Person.friends", "Employee.name", "Person.pals", "Person.tag",
     "Person.bad", "PView.friends", "PView.mates", "mates@note"}

\* What ctx.source_map may hold at the call: the recorded expressions, or
\* these and a record for p whose expression is None.
ExtendRecords ==
    {TopSourceMap}
      \cup {[q \in DOMAIN TopSourceMap \cup {p} |-> q # p] :
              p \in {"Person.tag", "Person.pals"}}

\* Pointer ptrcls can have been resolved on Set s: a link property on the Set
\* its link leads to, another pointer on a Set of its source type, of a
\* subtype or of a supertype (a polymorphic reference).
Resolvable(s, ptrcls) ==
    IF is_link_property(ptrcls)
    THEN /\ sets[s].rptr # 0
         /\ ptrs[sets[s].rptr].ptrref = PtrTable[ptrcls].source
    ELSE /\ s \in DOMAIN set_types
         /\ \/ issubclass(set_types[s], PtrTable[ptrcls].source)
            \/ issubclass(PtrTable[ptrcls].source, set_types[s])

\* extend_path(source_set, ptrcls, ignore_computable=..., force_computable=...)
\* in a context whose source_map is recorded: the un-expanded Set is returned,
\* or computable_ptr_set is entered on the new edge and its result returned.
ExExtend(source_set, ptrcls, ignore_computable, force_computable, recorded) ==
    /\ frames = <<>>
    /\ exc = "none"
    /\ outcome.status # "error"
    /\ calls < MaxExtends
    /\ Resolvable(source_set, ptrcls)
    /\ With([TopCtx EXCEPT !.source_map = recorded], LAMBDA c :
       With(extend_path(Heap, c, source_set, ptrcls, Outbound, NoType,
                        ignore_computable, force_computable), LAMBDA r :
         /\ SetHeap(r.h)
         /\ ctxs' = <<c>>
         /\ op' = [k |-> "extend_path", ptrcls |-> ptrcls, ptr |-> r.ptr,
                   target_set |-> r.val,
                   ignore_computable |-> ignore_computable,
                   force_computable |-> force_computable,
                   recorded |-> recorded, log |-> op.log]
         /\ IF r.expand
            THEN /\ frames' = <<Frame("computable_ptr_set", "enter", 1, c,
                                      NoPathExpr, r.ptr)>>
                 /\ outcome' = NoOutcome
            ELSE /\ frames' = <<>>
                 /\ outcome' = [status |-> "ok", val |-> r.val,
                                err |-> "none"]))
    /\ calls' = calls + 1
    /\ UNCHANGED <<exc, work>>

NextExtend ==
    \/ \E source_set \in 1..Len(sets), ptrcls \in ExtendPtrs,
          ignore_computable \in BOOLEAN, force_computable \in BOOLEAN,
          recorded \in ExtendRecords :
         ExExtend(source_set, ptrcls, ignore_computable, force_computable,
                  recorded)
    \/ CpStart
    \/ CpAnchor
    \/ CpObjectRef
    \/ CpPtrOpen
    \/ CpPtrBody
    \/ CpClose
    \/ CpRegister
    \/ CpDeferred
    \/ CpFuse
    \/ CpReturn
    \/ CsEnter
    \/ CsBodyRet
    \/ Unwind

SpecExtend == Init /\ [][NextExtend]_vars

\* ---------------------------------------------------------------- properties

\* compile_path is at its return statement (line 305).
Returning ==
    /\ exc = "none"
    /\ frames # <<>>
    /\ Top.fn = "compile_path"
    /\ Top.pc = "return"

RECURSIVE EdgesBack(_, _, _)
\* The directions of the Pointer edges crossed from Set s back to root along
\* rptr.source, first edge first; "lost" when the walk does not end at root.
EdgesBack(s, root, fuel) ==
    IF s = root THEN <<>>
    ELSE IF fuel = 0 \/ sets[s].rptr = 0 THEN <<"lost">>
    ELSE EdgesBack(ptrs[sets[s].rptr].source, root, fuel - 1)
         \o (IF ptrs[sets[s].rptr].cls = "Pointer"
             THEN <<ptrs[sets[s].rptr].direction>> ELSE <<>>)

\* The directions the steps after the root ask for.
Requested(path) ==
    [k \in 1..(Len(path.steps) - 1) |->
        IF path.steps[k + 1].dir = NoDir THEN Outbound
        ELSE path.steps[k + 1].dir]

\* A root followed by pointer traversals only, none of them a tuple access.
PurePointerPath(f) ==
    /\ ~f.path.partial
    /\ \A j \in 2..Len(f.path.steps) : f.path.steps[j].k = "Ptr"
    /\ \A j \in 1..(Len(f.path_sets) - 1) :
         set_types[f.path_sets[j]] \notin TupleTypes

\* C1: when compile_path returns for a root followed by N pointer-traversal
\* steps, the walk along rptr.source from the returned Set back to the root
\* crosses exactly N Pointer edges, the k-th in the direction of the k-th step
\* (Outbound when the step names none).
C1_EdgesMatchSteps ==
    (Returning /\ PurePointerPath(Top))
        => EdgesBack(Top.path_tip, Top.path_sets[1], Len(ptrs))
               = Requested(Top.path)

\* The schema has a pointer of that name on the source, in that direction.
HasPointer(source, name, direction) ==
    \E p \in PtrIds :
       /\ PtrTable[p].name = name
       /\ IF direction = Inbound
          THEN PtrTable[p].kind = "link" /\ issubclass(source, PtrTable[p].target)
          ELSE issubclass(source, PtrTable[p].source)

\* C2: a pointer step whose name is no pointer of the source raises
\* InvalidReferenceError out of resolve_ptr, and the schema snapshot and the
\* alias counter are after the call what they were before it.
C2_NoSuchPointerRaises ==
    [][(/\ CpPtrBody
        /\ Top.src \notin TupleTypes
        /\ ~HasPointer(Top.src, CurStep.name, Top.dir))
       => (/\ exc' = "InvalidReferenceError"
           /\ schema' = schema
           /\ aliases' = aliases)]_vars

\* C2: resolve_ptr has just raised on a name the source has no pointer for.
C2_Witness ==
    /\ exc = "InvalidReferenceError"
    /\ frames # <<>>
    /\ Top.fn = "compile_path"
    /\ Top.pc = "ptr_body"
    /\ Len(ctxs) > Top.base
    /\ Top.src \notin TupleTypes
    /\ ~HasPointer(Top.src, CurStep.name, Top.dir)

\* No node has two direct children labeled with the same PathId.
AtMostOneChild ==
    \A n \in 1..Len(nodes) : \A a, b \in Children(nodes, n) :
       (nodes[a].path_id # NoPath /\ nodes[a].path_id = nodes[b].path_id)
           => a = b

\* scoped_set has returned for a Set whose PathId labels a direct child of
\* the scope pointer.
Reregistered ==
    /\ op.k = "scoped_set"
    /\ op.err = "none"
    /\ op.d.is_set
    /\ find_child(nodes, op.scope, sets[op.d.val].path_id) # 0

\* What came back is a new Set over an implicit statement around the Set
\* handed in, under a PathId of its own, scoped to the scope pointer.
Wrapped ==
    /\ op.ret # op.d.val
    /\ sets[op.ret].expr = ensure_stmt(op.d.val)
    /\ sets[op.ret].path_id # sets[op.d.val].path_id
    /\ sets[op.ret].path_scope_id = op.scope

\* C3 as stated: a scope node has at most one direct child per PathId, and
\* scoped_set on a Set whose PathId is already a direct child of the scope
\* pointer always wraps the Set and registers the wrapper.
C3_AlwaysWrapped == AtMostOneChild /\ (Reregistered => Wrapped)

\* C3, amended: a scope node has at most one direct child per PathId, and
\* scoped_set on a Set whose PathId is already a direct child of the scope
\* pointer wraps it exactly when the Set has no scope id yet or
\* force_reassign is set, and no explicit path_id is passed; otherwise the
\* Set itself comes back.
C3_WrappedWhenUnscoped ==
    /\ AtMostOneChild
    /\ Reregistered =>
         IF (op.scope_id = 0 \/ op.force_reassign) /\ op.path_id = NoPath
         THEN Wrapped
         ELSE op.ret = op.d.val

\* C3: scoped_set has wrapped a Set whose PathId was a direct child.
C3_Witness == Reregistered /\ Wrapped

\* The target branch of a fusion: the branch's only child when the branch is
\* anonymous and has exactly one child, the branch itself otherwise.
TargetBranch(ns, branch) ==
    IF ns[branch].path_id = NoPath /\ Cardinality(Children(ns, branch)) = 1
    THEN CHOOSE k \in Children(ns, branch) : TRUE
    ELSE branch

\* A fusion has just run into a labeled parent whose label is the target
\* branch's.
FusedSameLabel ==
    /\ op.k = "fuse_scope_branch"
    /\ op.before[op.parent].path_id # NoPath
    /\ op.before[TargetBranch(op.before, op.branch)].path_id
           = op.before[op.parent].path_id

\* A fusion has just run into an anonymous parent, or into a labeled parent
\* whose label is not the target branch's.
FusedOtherLabel ==
    /\ op.k = "fuse_scope_branch"
    /\ \/ op.before[op.parent].path_id = NoPath
       \/ op.before[TargetBranch(op.before, op.branch)].path_id
              # op.before[op.parent].path_id

\* C4: fusing into a parent labeled X a branch whose target branch is labeled
\* X attaches to the parent one fresh anonymous node, whose children are
\* exactly the former children of the target branch; neither the target
\* branch nor any other node labeled X is attached under the parent.
C4_SameLabelFused ==
    FusedSameLabel =>
      LET fresh == Len(nodes)
          target == TargetBranch(op.before, op.branch)
      IN /\ Len(nodes) = Len(op.before) + 1
         /\ Children(nodes, op.parent)
                = Children(op.before, op.parent) \cup {fresh}
         /\ nodes[fresh].path_id = NoPath
         /\ Children(nodes, fresh) = Children(op.before, target)
         /\ target \notin Children(nodes, op.parent)
         /\ \A n \in 1..Len(op.before) :
              n \notin Children(op.before, target)
                  => nodes[n] = op.before[n]

\* C4: a wrapped branch has been fused into a parent of its target's label,
\* and the target branch had children.
C4_Witness ==
    /\ FusedSameLabel
    /\ TargetBranch(op.before, op.branch) # op.branch
    /\ Children(op.before, TargetBranch(op.before, op.branch)) # {}

\* C5: fusing into an anonymous parent, or into a labeled parent whose PathId
\* is not the target branch's, attaches the branch handed in whole: no node
\* is created, and no node but the branch's own root changes its parent.
C5_OtherLabelAttachedWhole ==
    FusedOtherLabel =>
      /\ Len(nodes) = Len(op.before)
      /\ nodes = [op.before EXCEPT ![op.branch].parent = op.parent]

\* C5: an anonymous wrapper with one child has been attached whole to a
\* labeled parent of another PathId.
C5_Witness ==
    /\ FusedOtherLabel
    /\ op.before[op.parent].path_id # NoPath
    /\ TargetBranch(op.before, op.branch) # op.branch
    /\ nodes[op.branch].parent = op.parent

\* Two finished expansions of one computed pointer from two call sites.
SamePointerTwice(i, j) ==
    /\ i < j
    /\ op.log[i].ptrcls = op.log[j].ptrcls
    /\ op.log[i].rptr # op.log[j].rptr

\* C6: two expansions of the same computed pointer from two distinct call
\* sites return Sets whose PathIds differ and whose resolved types are both
\* the pointer's declared target type.
C6_DistinctPathIds ==
    \A i, j \in 1..Len(op.log) :
       SamePointerTwice(i, j)
           => /\ op.log[i].path_id # op.log[j].path_id
              /\ op.log[i].stype = PtrTable[op.log[i].ptrcls].target
              /\ op.log[j].stype = PtrTable[op.log[j].ptrcls].target

\* C6 (amended): two expansions of the same computed pointer from two call
\* sites return Sets whose resolved types are both the pointer's declared
\* target type; the PathId of each is the call's source path extended by the
\* pointer under the call site's own namespace, so the two are equal exactly
\* when source path and namespace are; what the per-call tag keeps apart is
\* the inner self PathId bound in the view map.
C6_SameTypesInnerPathsApart ==
    \A i, j \in 1..Len(op.log) :
       SamePointerTwice(i, j)
           => LET a == op.log[i]
                  b == op.log[j]
                  target == PtrTable[a.ptrcls].target
              IN /\ a.stype = target
                 /\ b.stype = target
                 /\ a.path_id = extend_path_id(a.source_path_id, a.ptrcls,
                                               Outbound, target, a.ns)
                 /\ b.path_id = extend_path_id(b.source_path_id, b.ptrcls,
                                               Outbound, target, b.ns)
                 /\ a.inner_path_id # NoPath
                        => /\ a.inner_path_id # b.inner_path_id
                           /\ a.tags \cap b.tags \subseteq {RecordedNs(a.ptrcls)}

\* C6: a source-map pointer has been expanded from two call sites, and the
\* two returned Sets carry the same PathId.
C6_Witness ==
    \E i, j \in 1..Len(op.log) :
       /\ SamePointerTwice(i, j)
       /\ op.log[i].inner_path_id # NoPath
       /\ op.log[i].path_id = op.log[j].path_id

\* The step under way is a pointer traversal with an [IS T] filter, and
\* ptr_step_set returns from it.
FilteredStepReturns ==
    /\ CpPtrBody
    /\ Top.src \notin TupleTypes
    /\ Top.tgt # NoType
    /\ exc' = "none"

\* The Set extend_path built in the step and the far endpoint of its pointer.
ExtendedSet == Len(sets) + 1

FarEndpoint == get_far_endpoint(ptrs'[Len(ptrs) + 1].ptrref, Top.dir)

\* C7: for a pointer step with an [IS T] filter, ptr_step_set adds no
\* type-indirection Set after the extended Set when T is the far endpoint of
\* the resolved pointer, and exactly one when T is a strict subtype of it:
\* non-optional, with the extended Set as its source.
C7_FilterIndirection ==
    [][FilteredStepReturns =>
         /\ ptrs'[Len(ptrs) + 1].cls = "Pointer"
         /\ ptrs'[Len(ptrs) + 1].target = ExtendedSet
         /\ Top.tgt = FarEndpoint
                => /\ Len(sets') = Len(sets) + 1
                   /\ Len(ptrs') = Len(ptrs) + 1
                   /\ Top'.path_tip = ExtendedSet
         /\ (Top.tgt # FarEndpoint /\ issubclass(Top.tgt, FarEndpoint))
                => /\ Len(sets') = Len(sets) + 2
                   /\ Len(ptrs') = Len(ptrs) + 2
                   /\ Top'.path_tip = ExtendedSet + 1
                   /\ sets'[Top'.path_tip].rptr = Len(ptrs')
                   /\ set_types'[Top'.path_tip] = Top.tgt
                   /\ ptrs'[Len(ptrs')].cls = "TypeIndirectionPointer"
                   /\ ptrs'[Len(ptrs')].source = ExtendedSet
                   /\ ptrs'[Len(ptrs')].target = Top'.path_tip
                   /\ ~ptrs'[Len(ptrs')].optional]_vars

\* C7: a step filtered to a strict subtype of the far endpoint has returned
\* its type-indirection Set.
C7_Witness ==
    /\ Running("compile_path", "close")
    /\ Top.tgt # NoType
    /\ ptrs[sets[Top.path_tip].rptr].cls = "TypeIndirectionPointer"
    /\ ~ptrs[sets[Top.path_tip].rptr].optional
    /\ Top.tgt # set_types[ptrs[sets[Top.path_tip].rptr].source]

\* The deferred Set whose turn it is, and its node in the active scope tree
\* (0 when its PathId labels no descendant of the scope pointer).
DeferredSet == Top.computables[Top.ci]

DeferredNode ==
    find_descendant(nodes, FrameCtx(Top).path_scope, sets[DeferredSet].path_id)

\* The deferred loop takes up its next Set.
DeferredTurn == CpDeferred /\ Top.ci <= Len(Top.computables)

\* The position of the deferred Set in the Set chain.
DeferredAt == FirstIndex(Top.path_sets, DeferredSet)

FuseTurn == CpFuse /\ Top.ei <= Len(Top.extra_scopes)

FusedSet == Top.extra_scopes[Top.ei][1]

FusedBranch == Top.extra_scopes[Top.ei][2]

FusionNode ==
    find_descendant(nodes, FrameCtx(Top).path_scope, sets[FusedSet].path_id)

\* The step has fused the branch into node: attached it whole, or attached a
\* fresh anonymous node that took the children of its target branch.
FusedInto(node) ==
    \/ nodes' = [nodes EXCEPT ![FusedBranch].parent = node]
    \/ /\ Len(nodes') = Len(nodes) + 1
       /\ nodes'[Len(nodes')].parent = node
       /\ nodes'[Len(nodes')].path_id = NoPath
       /\ Children(nodes', Len(nodes'))
              = Children(nodes, TargetBranch(nodes, FusedBranch))

\* The Set has its scope id from the fusion when it had none, and keeps the
\* one it had otherwise.
ScopeAssigned(node) ==
    sets' = IF sets[FusedSet].path_scope_id = 0
            THEN [sets EXCEPT ![FusedSet].path_scope_id = node]
            ELSE sets

\* C9: every sub-scope recorded during the step walk is fused into a node of
\* the active scope tree, and a Set without scope id is assigned that node.
C9_EveryBranchFused ==
    [][FuseTurn =>
         \E node \in Descendants(nodes, FrameCtx(Top).path_scope) :
            FusedInto(node) /\ ScopeAssigned(node)]_vars

\* C9 (amended): a recorded sub-scope is fused when the PathId of its Set
\* labels a descendant of the scope pointer: into that node, which a Set
\* without scope id is then assigned; when no descendant carries the PathId
\* the sub-scope is passed over, tree and Sets staying as they are.
C9_FusedWhereFound ==
    [][FuseTurn =>
         /\ Top'.ei = Top.ei + 1
         /\ IF FusionNode = 0
            THEN UNCHANGED <<nodes, sets>>
            ELSE FusedInto(FusionNode) /\ ScopeAssigned(FusionNode)]_vars

\* C9: the sub-scope of a view root that is not the tip has been fused, and
\* its Set, built without scope id, has one.
C9_Witness ==
    /\ Running("compile_path", "fuse")
    /\ Top.ei = 2
    /\ Top.extra_scopes[1][1] # Top.path_tip
    /\ Top.path.steps[1].k = "ObjectRef"
    /\ sets[Top.extra_scopes[1][1]].path_scope_id # 0
    /\ nodes[sets[Top.extra_scopes[1][1]].path_scope_id].path_id
           = sets[Top.extra_scopes[1][1]].path_id

\* The operation on top of the call stack ends in this step, by a return or
\* by an exception leaving it.
OperationEnds == frames # <<>> /\ Len(frames') = Len(frames) - 1

\* C10: when compile_path or computable_ptr_set ends, by a return or by an
\* error, every context level opened since its entry is closed: the active
\* level is the caller's, with the scope pointer, the path-id namespace and
\* the self anchor it had at entry.
C10_ContextsClosed ==
    [][OperationEnds =>
         /\ Len(ctxs') = Top.base
         /\ SubSeq(ctxs', 1, Top.base) = SubSeq(ctxs, 1, Top.base)
         /\ CurCtx'.path_scope = Top.entry.path_scope
         /\ CurCtx'.path_id_namespace = Top.entry.path_id_namespace
         /\ CurCtx'.self = Top.entry.self]_vars

\* C10: an error raised in the body of a computed pointer has ended
\* computable_ptr_set; compile_path, which called it from its deferred loop,
\* is the operation on top again and has its own level for the call still
\* open, nothing above it.
C10_Witness ==
    /\ exc = "QueryError"
    /\ frames # <<>>
    /\ Top.fn = "compile_path"
    /\ Top.pc = "deferred_ret"
    /\ Len(ctxs) = Top.base + 1

\* The phases of compile_path that follow the step walk.
AfterSteps == {"register", "deferred", "deferred_ret", "fuse", "return"}

\* C11: an error raised in compile_path ends the call with that error: while
\* it is on its way out no frame moves on (no later step, no step again), no
\* Set, edge or scope node is built and no node is attached (no
\* registration), and the top-level call ends with the error and no Set;
\* registration, deferred expansion and fusion are reached only once every
\* step is done.
C11_FailFast ==
    [][/\ exc # "none" =>
            /\ frames' \in {frames, Pop(frames)}
            /\ UNCHANGED <<sets, ptrs, set_types, schema, aliases, op>>
            /\ Len(nodes') = Len(nodes)
            /\ \A n \in 1..Len(nodes) :
                  nodes'[n] \in {nodes[n], [nodes[n] EXCEPT !.parent = 0]}
            /\ IF frames' = <<>>
               THEN /\ exc' = "none"
                    /\ outcome' = [status |-> "error", val |-> 0, err |-> exc]
               ELSE exc' = exc /\ outcome'.status # "ok"
       /\ \A k \in 1..Len(frames) :
             (frames[k].fn = "compile_path" /\ frames[k].pc \in AfterSteps)
                 => frames[k].i = Len(frames[k].path.steps) + 1]_vars

\* C11: a step has raised with steps of the path still to come, and the
\* scopes of the call are closed; the error is about to leave compile_path.
C11_Witness ==
    /\ exc # "none"
    /\ frames # <<>>
    /\ Top.fn = "compile_path"
    /\ Top.pc \notin AfterSteps
    /\ Top.i < Len(Top.path.steps)
    /\ Top.path_sets # <<>>
    /\ Len(ctxs) = Top.base

\* The redefined link of the view is being expanded.
ExpandingViewPointer ==
    \E k \in 1..Len(frames) :
       /\ frames[k].fn = "computable_ptr_set"
       /\ ptrs[frames[k].rptr].ptrref = "PView.friends"

\* C12: the expansion of a view's computed pointer whose defining expression
\* refers to self comes to an end: the call that started it returns.
C12_ViewExpansionEnds ==
    ExpandingViewPointer ~> (frames = <<>> /\ outcome.status = "ok")

\* C12: inside the expansion of the view's pointer the defining expression
\* has been compiled from the self anchor, a Set over the base type, and is
\* about to return.
C12_Witness ==
    /\ Running("compile_path", "return")
    /\ Len(frames) > 1
    /\ frames[Len(frames) - 1].fn = "computable_ptr_set"
    /\ ptrs[frames[Len(frames) - 1].rptr].ptrref = "PView.friends"
    /\ Top.path.steps[1].k = "Source"
    /\ set_types[Top.path_sets[1]] = "Person"
    /\ set_types[ptrs[frames[Len(frames) - 1].rptr].source] = "PView"

\* The Set's own typeref says what the map says: the reference to the mapped
\* type, or none when the map holds no type for the Set.
TyperefAgrees(s) ==
    sets[s].typeref = IF set_types[s] = NoType THEN NoTypeRef
                      ELSE type_to_typeref(set_types[s])

\* C13: after any factory operations every Set has an entry in the
\* Set-to-type map, the entry of the Set last made or retyped is the type
\* that operation assigned, and each entry agrees with the Set's own typeref.
C13_TypeMapTotalAndAgrees ==
    /\ \A s \in 1..Len(sets) : s \in DOMAIN set_types /\ TyperefAgrees(s)
    /\ op.k \notin {"none"} => set_types[op.ret] = op.stype

\* The step compile_path is about to take is a type reference or a
\* sub-expression that is not the first item of the path.
MisplacedRoot ==
    /\ Running("compile_path", "step")
    /\ CurStep.k \in {"ObjectRef", "Expr"}
    /\ Top.i > 1

\* C14: a type reference or a sub-expression after the first item of a path
\* raises RuntimeError, which is neither the user query error nor the
\* reference error, and the step has built no Set or edge and opened no scope
\* by then.
C14_MisplacedRootIsInternalError ==
    [][MisplacedRoot =>
         /\ exc' = "RuntimeError"
         /\ exc' \notin {"QueryError", "InvalidReferenceError"}
         /\ UNCHANGED <<sets, ptrs, set_types, nodes, ctxs, frames, schema,
                        aliases>>]_vars

\* C14: a sub-expression in the second place of a path has just raised.
C14_Witness ==
    /\ exc = "RuntimeError"
    /\ frames # <<>>
    /\ Top.fn = "compile_path"
    /\ Top.pc = "step"
    /\ Top.i = 2
    /\ CurStep.k = "Expr"
    /\ Len(Top.path_sets) = 1

\* The type-indirection edges built so far, and the multiplicity recorded in
\* the last segment of a Set's PathId.
IndirectionPointers ==
    {p \in 1..Len(ptrs) : ptrs[p].cls = "TypeIndirectionPointer"}

Multiplicity(s) == sets[s].path_id.segs[Len(sets[s].path_id.segs)].card

HasManyEdge(s) == sets[s].rptr # 0 /\ ptrs[sets[s].rptr].card = MANY

\* compile_path has taken the steps of Person.friends[IS Employee] and their
\* edges are in place.
FriendsFiltered ==
    /\ frames # <<>>
    /\ Top.fn = "compile_path"
    /\ Top.pc = "close"
    /\ Top.i = 2
    /\ Top.path.steps[1] = Step("ObjectRef", "Person", NoDir, NoType, "link",
                                NoType, "none")
    /\ Top.path.steps[2] = PtrStep("friends", Outbound, "Employee", "link")

\* C15: the PathId of a type-indirection Set records the multiplicity many
\* when the Set it filters has an incoming edge of direction cardinality many,
\* and one otherwise (also when that Set has no incoming edge); the
\* indirection after friends in Person.friends[IS Employee] is many.
C15_IndirectionMultiplicity ==
    /\ \A p \in IndirectionPointers :
          /\ sets[ptrs[p].target].rptr = p
          /\ sets[ptrs[p].target].path_id.segs[
                 Len(sets[ptrs[p].target].path_id.segs)].k = "ind"
          /\ Multiplicity(ptrs[p].target) =
                 IF HasManyEdge(ptrs[p].source) THEN MANY ELSE ONE
    /\ FriendsFiltered =>
          /\ ptrs[sets[Top.path_tip].rptr].cls = "TypeIndirectionPointer"
          /\ Multiplicity(Top.path_tip) = MANY

\* C15: Person.friends[IS Employee] has been taken; the filter sits on the
\* Set that the multi link friends leads to.
C15_Witness ==
    /\ FriendsFiltered
    /\ HasManyEdge(ptrs[sets[Top.path_tip].rptr].source)
    /\ Multiplicity(Top.path_tip) = MANY

\* A step that is a call of extend_path.
ExtendCalled == calls' = calls + 1 /\ op'.k = "extend_path"

\* The defining environment holds a defining expression for the pointer of
\* the call recorded in o.
HasRecordedExpr(o) ==
    o.ptrcls \in DOMAIN o.recorded /\ o.recorded[o.ptrcls]

\* Computed as stated: a recorded expression, a pure computable, or a default
\* with force_computable.
ComputedAnyReason(o) ==
    \/ HasRecordedExpr(o)
    \/ PtrTable[o.ptrcls].pure
    \/ PtrTable[o.ptrcls].has_default /\ o.force_computable

\* Computed where the record, when there is one, decides alone.
ComputedRecordFirst(o) ==
    IF o.ptrcls \in DOMAIN o.recorded THEN o.recorded[o.ptrcls]
    ELSE \/ PtrTable[o.ptrcls].pure
         \/ PtrTable[o.ptrcls].has_default /\ o.force_computable

\* The call has built the new Set with its incoming edge from the source.
EdgeBuilt ==
    /\ op'.ptr = Len(ptrs')
    /\ op'.ptr > Len(ptrs)
    /\ op'.target_set = Len(sets')
    /\ ptrs'[op'.ptr].ptrref = op'.ptrcls
    /\ ptrs'[op'.ptr].target = op'.target_set
    /\ sets'[op'.target_set].rptr = op'.ptr

\* The call goes on into computable_ptr_set on the new edge.
ExpandsAtOnce ==
    /\ frames' # <<>>
    /\ frames'[1].fn = "computable_ptr_set"
    /\ frames'[1].pc = "enter"
    /\ frames'[1].rptr = op'.ptr

\* The call is over and has returned the new Set as it built it.
ReturnsUnexpanded ==
    /\ frames' = <<>>
    /\ outcome' = [status |-> "ok", val |-> op'.target_set, err |-> "none"]
    /\ op'.log = op.log

\* C16 as stated: extend_path expands the new Set at once exactly when
\* ignore_computable is false and the pointer has a recorded defining
\* expression, or is a pure computable, or has a default while
\* force_computable is set; otherwise it returns the un-expanded Set with its
\* new incoming edge.
C16_ExpandsWhenComputed ==
    [][ExtendCalled =>
         /\ EdgeBuilt
         /\ IF ~op'.ignore_computable /\ ComputedAnyReason(op')
            THEN ExpandsAtOnce ELSE ReturnsUnexpanded]_vars

\* C16, amended: extend_path expands the new Set at once exactly when
\* ignore_computable is false and the pointer is computed, where a record of
\* the pointer in the defining environment decides alone (computed when it
\* holds a defining expression, not computed when it holds none) and only a
\* pointer without record is computed for being a pure computable or for
\* having a default while force_computable is set; otherwise it returns the
\* un-expanded Set with its new incoming edge.
C16_ExpandsWhenRecordDecides ==
    [][ExtendCalled =>
         /\ EdgeBuilt
         /\ IF ~op'.ignore_computable /\ ComputedRecordFirst(op')
            THEN ExpandsAtOnce ELSE ReturnsUnexpanded]_vars

\* C16: extend_path was called without deferral for a computed pointer, and
\* has returned the Set that computable_ptr_set made of the new edge.
C16_Witness ==
    /\ op.k = "extend_path"
    /\ ~op.ignore_computable
    /\ ComputedRecordFirst(op)
    /\ frames = <<>>
    /\ outcome.status = "ok"
    /\ op.log # <<>>
    /\ op.log[Len(op.log)].rptr = op.ptr
    /\ op.log[Len(op.log)].ret = outcome.val

\* computable_ptr_set is entered on an edge whose source Set is of a view
\* type: the step rebinds the source to a fresh Set over the base type.
RebindingView ==
    /\ Running("computable_ptr_set", "enter")
    /\ is_view(get_set_type(Heap, ptrs[Top.rptr].source))

\* rptr.source as the call finds it.
OriginalSource == ptrs[Top.rptr].source

\* The recorded type and the shape of the original source Set stay.
SourceTypeAndShapeKept ==
    /\ set_types'[OriginalSource] = set_types[OriginalSource]
    /\ sets'[OriginalSource].shape = sets[OriginalSource].shape

\* The incoming edge of the original source Set stays: the same edge, with
\* the same pointer reference.
SourceEdgeKept ==
    /\ sets'[OriginalSource].rptr = sets[OriginalSource].rptr
    /\ sets[OriginalSource].rptr # 0 =>
         ptrs'[sets[OriginalSource].rptr].ptrref =
             ptrs[sets[OriginalSource].rptr].ptrref

\* The incoming edge of the rebound Set is retargeted in this step.
Retargets ==
    /\ RebindingView
    /\ sets[OriginalSource].rptr # 0
    /\ ptrs[sets[OriginalSource].rptr].ptrref \in PtrIds
    /\ PtrTable[ptrs[sets[OriginalSource].rptr].ptrref].derived_from # NoType
    /\ PtrTable[PtrTable[ptrs[sets[OriginalSource].rptr].ptrref].derived_from]
           .derived_from # NoType
    /\ is_link_property(ptrs[Top.rptr].ptrref)

\* C17: when computable_ptr_set rebinds a view-typed source to a fresh Set
\* over the base type, the original source Set keeps its recorded type, its
\* shape and the pointer reference of its incoming edge, also when the
\* incoming edge of the rebound Set is retargeted to the pointer it was
\* derived from.
C17_SourceLeftAlone ==
    [][RebindingView => SourceTypeAndShapeKept /\ SourceEdgeKept]_vars

\* The recorded type and the shape alone stay on every rebinding step.
SourceTypeAndShapeAlwaysKept ==
    [][RebindingView => SourceTypeAndShapeKept]_vars

\* Without retargeting the incoming edge stays as well.
SourceEdgeKeptUnlessRetargeted ==
    [][(RebindingView /\ ~Retargets) => SourceEdgeKept]_vars
====
